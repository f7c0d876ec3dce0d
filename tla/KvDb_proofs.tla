----------------------------- MODULE KvDb_proofs ------------------------------
(***************************************************************************)
(* Theorems about KvDb, for all threads, keys, columns, transactions and     *)
(* bounds: the types, the promises of get and of restore, and that it        *)
(* implements KvMap.  The inductive invariant says, of each lock, what the   *)
(* thread that holds it may count on.                                        *)
(***************************************************************************)
EXTENDS KvDb, TLAPS

\* A get has found nothing in the buffers it has passed, and keeps them.
Gets ==
  \A t \in Thread : InGet(t) =>
    /\ open /\ pc[t].x \in Cell /\ overlay.at[pc[t].x] = Kept
    /\ pc[t].at = "getdisk" => flushing.at[pc[t].x] = Kept

OneRestore == \A t, u \in Thread : InRestore(t) /\ InRestore(u) => t = u

\* From close to the reopening there is no database, and no buffer has a place
\* for an entry; a buffer holds entries only in places it has.
Shut ==
  \A t \in Thread :
    /\ pc[t].at \in {"clearoverlay", "clearflushing", "rename", "replace",
                     "install", "reopen"} => ~open
    /\ pc[t].at \in {"clearflushing", "rename", "replace", "install", "reopen",
                     "newoverlay"} => overlay.width = 0
    /\ pc[t].at \in {"rename", "replace", "install", "reopen", "newoverlay"} =>
         flushing.width = 0

Filled == Within(overlay.at, overlay.width) /\ Within(flushing.at, flushing.width)

Directories ==
  /\ disk.is \/ (~open /\ backup.is)
  /\ \A t \in Thread : /\ pc[t].at = "replace" => backup.is
                       /\ pc[t].at = "reopen" => disk.is

Sized ==
  ~reshaped =>
    /\ open /\ (\A t \in Thread : ~InRestore(t)) =>
         overlay.width = disk.cols + 1 /\ flushing.width = disk.cols + 1
    /\ flag => ~Unlocked
    /\ \A t \in Thread :
         /\ pc[t].at \in {"write", "clear"} => open /\ \A u \in Thread : ~InRestore(u)
         /\ pc[t].at \in {"reopen", "newoverlay", "newflushing"} => disk.cols = Columns
         /\ pc[t].at = "newflushing" => overlay.width = Columns + 1

IInv == TypeOK /\ Gets /\ OneRestore /\ Shut /\ Filled /\ Directories /\ Sized

-----------------------------------------------------------------------------
(* Types                                                                     *)

USE DEF Cell, Entry, Kept, Promised!Cell, Promised!Entry, Promised!Kept

\* A batch has an operation, or none, for each cell.
LEMMA BatchTypes == ASSUME NEW b \in Batch PROVE b \in [Cell -> Entry]
BY KvDbAssumption

\* A new buffer is empty, whatever its width.
LEMMA FreshTypes ==
  ASSUME NEW width \in 0 .. MaxCol + 1
  PROVE  Fresh(width) \in Buffer /\ Within(Fresh(width).at, width) /\ IsEmpty(Fresh(width))
         /\ Fresh(width).width = width
BY DEF Fresh, Buffer, Within, IsEmpty

\* A database that was just created has the columns of the configuration.
LEMMA NewDirectoryTypes ==
  NoDirectory \in Directory /\ NewDirectory \in Directory
  /\ NewDirectory.is /\ NewDirectory.cols = Columns
BY KvDbAssumption DEF NoDirectory, NewDirectory, Directory, Stored, Blank

\* A batch put over a buffer's entries leaves entries.
LEMMA OverTypes ==
  ASSUME NEW at \in [Cell -> Entry], NEW b \in [Cell -> Entry]
  PROVE  Over(at, b) \in [Cell -> Entry]
BY DEF Over

\* What an entry becomes is a stored value.
LEMMA WrittenTypes ==
  ASSUME NEW e \in Entry, NEW packed \in BOOLEAN
  PROVE  Written(e, packed) \in Stored
BY DEF Written, Stored

\* A batch written to the disk leaves stored values.
LEMMA OnDiskTypes ==
  ASSUME NEW at \in [Cell -> Stored], NEW b \in [Cell -> Entry], NEW flush \in BOOLEAN
  PROVE  OnDisk(at, b, flush) \in [Cell -> Stored]
BY WrittenTypes DEF OnDisk

\* A thread that goes on is at a step of the code, with its cell.
LEMMA GoesTypes ==
  ASSUME TypeOK, NEW t \in Thread, NEW step \in Steps, Goes(t, step)
  PROVE  pc' \in [Thread -> [at : Steps, x : Cell \cup {NoCell}]]
BY DEF TypeOK, Goes

\* Every initial state is well typed.
LEMMA TypeInit == Init => TypeOK
<1> SUFFICES ASSUME Init PROVE TypeOK
  OBVIOUS
<1>1. Columns + 1 \in 0 .. MaxCol + 1 /\ 0 \in 0 .. MaxWrites /\ 0 \in 0 .. MaxLosses
  BY KvDbAssumption
<1>2. overlay \in Buffer /\ flushing \in Buffer
  BY <1>1, FreshTypes DEF Init
<1>3. last \in (0 .. MaxWrites) \X [Cell -> Entry]
  BY <1>1 DEF Init
<1> QED
  BY <1>1, <1>2, <1>3, NewDirectoryTypes DEF Init, TypeOK, Idle, NoCell, Steps

\* Every step keeps the types.
LEMMA TypeStep == TypeOK /\ [Next]_vars => TypeOK'
<1> SUFFICES ASSUME TypeOK, [Next]_vars PROVE TypeOK'
  OBVIOUS
<1> USE DEF NoCell
<1>1. ASSUME NEW t \in Thread, NEW b \in Batch, WriteBuffered(t, b) PROVE TypeOK'
  <2>1. losses' \in 0 .. MaxLosses
    BY <1>1, KvDbAssumption DEF TypeOK, WriteBuffered, Loses
  <2>2. last' \in (0 .. MaxWrites) \X [Cell -> Entry]
    <3>1. last \in (0 .. MaxWrites) \X [Cell -> Entry] /\ last[1] < MaxWrites
      BY <1>1 DEF TypeOK, WriteBuffered
    <3>2. CASE Accepted(b)
      BY <3>1, <3>2, KvDbAssumption, BatchTypes DEF Accepted
    <3> QED
      BY <1>1, <3>1, <3>2 DEF WriteBuffered
  <2>3. overlay' \in Buffer
    <3>1. CASE overlay' = [overlay EXCEPT !.at = Over(@, b)]
      BY <3>1, BatchTypes, OverTypes DEF TypeOK, Buffer
    <3>2. CASE \E done \in SUBSET {x \in Cell : x[1] < overlay.width} :
                 overlay' = [overlay EXCEPT !.at = [x \in Cell |-> IF x \in done /\ b[x] # Kept
                                                                 THEN b[x] ELSE @[x]]]
      <4>1. PICK done : overlay' = [overlay EXCEPT !.at =
                                      [x \in Cell |-> IF x \in done /\ b[x] # Kept
                                                      THEN b[x] ELSE @[x]]]
        BY <3>2
      <4>2. overlay \in Buffer /\ b \in [Cell -> Entry]
        BY BatchTypes DEF TypeOK
      <4> QED
        BY <4>1, <4>2 DEF Buffer
    <3> QED
      BY <1>1, <3>1, <3>2 DEF WriteBuffered
  <2> QED
    BY <1>1, <2>1, <2>2, <2>3 DEF TypeOK, WriteBuffered
<1>2. ASSUME NEW t \in Thread, NEW b \in Batch, Write(t, b) PROVE TypeOK'
  <2>1. losses' \in 0 .. MaxLosses
    BY <1>2, KvDbAssumption DEF TypeOK, Write, Loses
  <2>2. last' \in (0 .. MaxWrites) \X [Cell -> Entry]
    BY <1>2, KvDbAssumption, BatchTypes DEF TypeOK, Write, Accepted
  <2>3. disk' \in Directory
    BY <1>2, BatchTypes, OnDiskTypes DEF TypeOK, Write, Directory
  <2> QED
    BY <1>2, <2>1, <2>2, <2>3 DEF TypeOK, Write
<1>3. ASSUME NEW t \in Thread, Flush(t) PROVE TypeOK'
  BY <1>3, KvDbAssumption DEF TypeOK, Flush, Goes, Steps
<1>4. ASSUME NEW t \in Thread, Swap(t) PROVE TypeOK'
  <2>1. losses' \in 0 .. MaxLosses
    BY <1>4, KvDbAssumption DEF TypeOK, Swap, Loses
  <2>2. pc' \in [Thread -> [at : Steps, x : Cell \cup {NoCell}]]
    BY <1>4 DEF TypeOK, Swap, Goes, Steps
  <2>3. overlay' \in Buffer /\ flushing' \in Buffer /\ flag' \in BOOLEAN /\ reshaped' \in BOOLEAN
    BY <1>4 DEF TypeOK, Swap
  <2> QED
    BY <1>4, <2>1, <2>2, <2>3 DEF TypeOK, Swap
<1>5. ASSUME NEW t \in Thread, WriteFlushing(t) PROVE TypeOK'
  <2>1. disk' \in Directory
    <3>1. disk \in Directory /\ OnDisk(disk.at, flushing.at, TRUE) \in [Cell -> Stored]
      BY OnDiskTypes DEF TypeOK, Directory, Buffer
    <3> QED
      BY <1>5, <3>1 DEF WriteFlushing, Directory
  <2>2. pc' \in [Thread -> [at : Steps, x : Cell \cup {NoCell}]]
    BY <1>5, GoesTypes DEF WriteFlushing, Steps
  <2> QED
    BY <1>5, <2>1, <2>2, Zenon DEF TypeOK, WriteFlushing
<1>6. ASSUME NEW t \in Thread, Clear(t) PROVE TypeOK'
  <2>1. losses' \in 0 .. MaxLosses
    <3>1. losses' \in {losses, losses + 1} /\ losses' <= MaxLosses
      BY <1>6 DEF Clear, Loses
    <3> QED
      BY <3>1, KvDbAssumption DEF TypeOK
  <2>2. flushing' \in Buffer
    BY <1>6, FreshTypes DEF TypeOK, Clear, Buffer
  <2> QED
    BY <1>6, <2>1, <2>2 DEF TypeOK, Clear, Goes, Steps
<1>7. ASSUME NEW t \in Thread, NEW x \in Cell, Get(t, x) PROVE TypeOK'
  BY <1>7, KvDbAssumption DEF TypeOK, Get, Steps
<1>8. ASSUME NEW t \in Thread, GetFlushing(t) PROVE TypeOK'
  BY <1>8, KvDbAssumption DEF TypeOK, GetFlushing, Idle, Steps
<1>9. ASSUME NEW t \in Thread, GetDisk(t) PROVE TypeOK'
  BY <1>9, KvDbAssumption DEF TypeOK, GetDisk, Goes, Steps
<1>10. ASSUME NEW t \in Thread, AddColumn(t) PROVE TypeOK'
  BY <1>10, KvDbAssumption DEF TypeOK, AddColumn, Directory
<1>11. ASSUME NEW t \in Thread, DropColumn(t) PROVE TypeOK'
  <2>1. losses' \in 0 .. MaxLosses
    BY <1>11, KvDbAssumption DEF TypeOK, DropColumn, Loses
  <2>2. disk' \in Directory
    <3>1. /\ disk \in Directory /\ disk.cols - 1 \in 0 .. MaxCol /\ Blank \in Stored
          /\ disk' = [disk EXCEPT !.cols = @ - 1,
                                 !.at = [x \in Cell |-> IF x[1] = disk.cols THEN Blank ELSE @[x]]]
      BY <1>11, KvDbAssumption DEF TypeOK, DropColumn, Directory, Stored, Blank
    <3> QED
      BY <3>1 DEF Directory
  <2> QED
    BY <1>11, <2>1, <2>2 DEF TypeOK, DropColumn
<1>12. ASSUME NEW t \in Thread, Close(t) PROVE TypeOK'
  <2>1. losses' \in 0 .. MaxLosses
    BY <1>12, KvDbAssumption DEF TypeOK, Close, Loses
  <2> QED
    BY <1>12, <2>1 DEF TypeOK, Close, Goes, Steps
<1>13. ASSUME NEW t \in Thread, ClearOverlay(t) PROVE TypeOK'
  BY <1>13, KvDbAssumption, FreshTypes DEF TypeOK, ClearOverlay, Goes, Steps
<1>14. ASSUME NEW t \in Thread, ClearFlushing(t) PROVE TypeOK'
  BY <1>14, KvDbAssumption, FreshTypes DEF TypeOK, ClearFlushing, Goes, Steps
<1>15. ASSUME NEW t \in Thread, Rename(t) PROVE TypeOK'
  BY <1>15, KvDbAssumption, NewDirectoryTypes DEF TypeOK, Rename, Goes, Steps
<1>16. ASSUME NEW t \in Thread, Replace(t) PROVE TypeOK'
  BY <1>16, KvDbAssumption, NewDirectoryTypes DEF TypeOK, Replace, Goes, Steps
<1>17. ASSUME NEW t \in Thread, Install(t) PROVE TypeOK'
  BY <1>17, KvDbAssumption, NewDirectoryTypes DEF TypeOK, Install, Goes, Steps
<1>18. ASSUME NEW t \in Thread, Reopen(t) PROVE TypeOK'
  <2>1. losses' \in 0 .. MaxLosses
    BY <1>18, KvDbAssumption DEF TypeOK, Reopen, Loses
  <2>2. pc' \in [Thread -> [at : Steps, x : Cell \cup {NoCell}]]
    BY <1>18, GoesTypes DEF Reopen, Steps
  <2> QED
    BY <1>18, <2>1, <2>2 DEF TypeOK, Reopen
<1>19. ASSUME NEW t \in Thread, NewOverlay(t) PROVE TypeOK'
  BY <1>19, KvDbAssumption, FreshTypes DEF TypeOK, NewOverlay, Goes, Steps
<1>20. ASSUME NEW t \in Thread, NewFlushing(t) PROVE TypeOK'
  BY <1>20, KvDbAssumption, FreshTypes DEF TypeOK, NewFlushing, Goes, Steps, Loses
<1>21. ASSUME Crash PROVE TypeOK'
  <2>1. losses' \in 0 .. MaxLosses
    BY <1>21, KvDbAssumption DEF TypeOK, Crash, Loses
  <2>2. disk' \in Directory
    BY <1>21 DEF TypeOK, Crash, Directory
  <2>3. overlay' \in Buffer /\ flushing' \in Buffer
    BY <1>21, KvDbAssumption, FreshTypes DEF TypeOK, Crash, Directory
  <2> QED
    BY <1>21, <2>1, <2>2, <2>3 DEF TypeOK, Crash, Idle, Steps
<1>22. ASSUME UNCHANGED vars PROVE TypeOK'
  BY <1>22, KvDbAssumption DEF TypeOK, vars
<1>23. QED
  BY <1>1, <1>2, <1>3, <1>4, <1>5, <1>6, <1>7, <1>8, <1>9, <1>10, <1>11, <1>12, <1>13, <1>14, <1>15, <1>16, <1>17, <1>18, <1>19, <1>20, <1>21, <1>22 DEF Next

-----------------------------------------------------------------------------
(* The invariant                                                             *)

\* What the steps that may end in several ways have in common.
LEMMA WritesFlushing ==
  ASSUME NEW t \in Thread, WriteFlushing(t)
  PROVE  /\ pc[t].at = "write"
         /\ \E step \in {"clear", "idle"} : Goes(t, step)
         /\ disk' = disk \/ disk' = [disk EXCEPT !.at = OnDisk(@, flushing.at, TRUE)]
         /\ UNCHANGED <<open, backup, overlay, flushing, reshaped, last, losses>>
BY DEF WriteFlushing

\* open either succeeds, and restore goes on to the buffers, or fails, and
\* restore returns with the database closed.
LEMMA Reopens ==
  ASSUME NEW t \in Thread, Reopen(t)
  PROVE  /\ pc[t].at = "reopen"
         /\ (open' = TRUE /\ Goes(t, "newoverlay")) \/ (open' = open /\ Goes(t, "idle"))
         /\ UNCHANGED <<disk, backup, overlay, flushing, flag, reshaped, last>>
BY DEF Reopen

\* Nobody changes a buffer that a get has passed and found nothing in.
LEMMA GetsStep == TypeOK /\ Gets /\ [Next]_vars => Gets'
<1> SUFFICES ASSUME TypeOK, Gets, [Next]_vars PROVE Gets'
  OBVIOUS
<1> USE DEF TypeOK, Gets, InGet, DbFree, OverlayFree, FlushingFree
<1>1. ASSUME NEW t \in Thread, NEW b \in Batch, WriteBuffered(t, b) PROVE Gets'
  BY <1>1 DEF WriteBuffered
<1>2. ASSUME NEW t \in Thread, NEW b \in Batch, Write(t, b) PROVE Gets'
  BY <1>2 DEF Write
<1>3. ASSUME NEW t \in Thread, Flush(t) PROVE Gets'
  BY <1>3 DEF Flush, Goes
<1>4. ASSUME NEW t \in Thread, Swap(t) PROVE Gets'
  BY <1>4 DEF Swap, Goes
<1>5. ASSUME NEW t \in Thread, WriteFlushing(t) PROVE Gets'
  <2>1. PICK step \in {"clear", "idle"} : Goes(t, step)
    BY <1>5, WritesFlushing
  <2> QED
    BY <1>5, <2>1, WritesFlushing DEF Goes
<1>6. ASSUME NEW t \in Thread, Clear(t) PROVE Gets'
  BY <1>6 DEF Clear, Goes
<1>7. ASSUME NEW t \in Thread, NEW x \in Cell, Get(t, x) PROVE Gets'
  BY <1>7 DEF Get
<1>8. ASSUME NEW t \in Thread, GetFlushing(t) PROVE Gets'
  BY <1>8 DEF GetFlushing, Idle
<1>9. ASSUME NEW t \in Thread, GetDisk(t) PROVE Gets'
  BY <1>9 DEF GetDisk, Goes
<1>10. ASSUME NEW t \in Thread, AddColumn(t) PROVE Gets'
  BY <1>10 DEF AddColumn
<1>11. ASSUME NEW t \in Thread, DropColumn(t) PROVE Gets'
  BY <1>11 DEF DropColumn
<1>12. ASSUME NEW t \in Thread, Close(t) PROVE Gets'
  BY <1>12 DEF Close, Goes
<1>13. ASSUME NEW t \in Thread, ClearOverlay(t) PROVE Gets'
  BY <1>13 DEF ClearOverlay, Goes
<1>14. ASSUME NEW t \in Thread, ClearFlushing(t) PROVE Gets'
  BY <1>14 DEF ClearFlushing, Goes
<1>15. ASSUME NEW t \in Thread, Rename(t) PROVE Gets'
  BY <1>15 DEF Rename, Goes
<1>16. ASSUME NEW t \in Thread, Replace(t) PROVE Gets'
  BY <1>16 DEF Replace, Goes
<1>17. ASSUME NEW t \in Thread, Install(t) PROVE Gets'
  BY <1>17 DEF Install, Goes
<1>18. ASSUME NEW t \in Thread, Reopen(t) PROVE Gets'
  <2>1. CASE open' = TRUE /\ Goes(t, "newoverlay")
    BY <1>18, <2>1, Reopens, ZenonT(40) DEF Goes
  <2>2. CASE open' = open /\ Goes(t, "idle")
    BY <1>18, <2>2, Reopens DEF Goes
  <2> QED
    BY <1>18, <2>1, <2>2, Reopens
<1>19. ASSUME NEW t \in Thread, NewOverlay(t) PROVE Gets'
  BY <1>19 DEF NewOverlay, Goes
<1>20. ASSUME NEW t \in Thread, NewFlushing(t) PROVE Gets'
  BY <1>20 DEF NewFlushing, Goes
<1>21. ASSUME Crash PROVE Gets'
  BY <1>21 DEF Crash, Idle
<1>22. ASSUME UNCHANGED vars PROVE Gets'
  BY <1>22 DEF vars
<1>23. QED
  BY <1>1, <1>2, <1>3, <1>4, <1>5, <1>6, <1>7, <1>8, <1>9, <1>10, <1>11, <1>12, <1>13, <1>14, <1>15, <1>16, <1>17, <1>18, <1>19, <1>20, <1>21, <1>22 DEF Next

\* A second restore waits for the first, which has the lock of the database.
LEMMA OneRestoreStep == TypeOK /\ OneRestore /\ [Next]_vars => OneRestore'
<1> SUFFICES ASSUME TypeOK, OneRestore, [Next]_vars PROVE OneRestore'
  OBVIOUS
<1> USE DEF TypeOK, OneRestore, InRestore, InFlush, InGet
<1>1. ASSUME NEW t \in Thread, NEW b \in Batch, WriteBuffered(t, b) PROVE OneRestore'
  BY <1>1 DEF WriteBuffered
<1>2. ASSUME NEW t \in Thread, NEW b \in Batch, Write(t, b) PROVE OneRestore'
  BY <1>2 DEF Write
<1>3. ASSUME NEW t \in Thread, Flush(t) PROVE OneRestore'
  BY <1>3 DEF Flush, Goes
<1>4. ASSUME NEW t \in Thread, Swap(t) PROVE OneRestore'
  BY <1>4 DEF Swap, Goes
<1>5. ASSUME NEW t \in Thread, WriteFlushing(t) PROVE OneRestore'
  <2>1. PICK step \in {"clear", "idle"} : Goes(t, step)
    BY <1>5, WritesFlushing
  <2> QED
    BY <1>5, <2>1, WritesFlushing DEF Goes
<1>6. ASSUME NEW t \in Thread, Clear(t) PROVE OneRestore'
  BY <1>6 DEF Clear, Goes
<1>7. ASSUME NEW t \in Thread, NEW x \in Cell, Get(t, x) PROVE OneRestore'
  BY <1>7 DEF Get
<1>8. ASSUME NEW t \in Thread, GetFlushing(t) PROVE OneRestore'
  BY <1>8 DEF GetFlushing, Idle
<1>9. ASSUME NEW t \in Thread, GetDisk(t) PROVE OneRestore'
  BY <1>9 DEF GetDisk, Goes
<1>10. ASSUME NEW t \in Thread, AddColumn(t) PROVE OneRestore'
  BY <1>10 DEF AddColumn
<1>11. ASSUME NEW t \in Thread, DropColumn(t) PROVE OneRestore'
  BY <1>11 DEF DropColumn
<1>12. ASSUME NEW t \in Thread, Close(t) PROVE OneRestore'
  BY <1>12 DEF Close, Goes
<1>13. ASSUME NEW t \in Thread, ClearOverlay(t) PROVE OneRestore'
  BY <1>13 DEF ClearOverlay, Goes
<1>14. ASSUME NEW t \in Thread, ClearFlushing(t) PROVE OneRestore'
  BY <1>14 DEF ClearFlushing, Goes
<1>15. ASSUME NEW t \in Thread, Rename(t) PROVE OneRestore'
  BY <1>15 DEF Rename, Goes
<1>16. ASSUME NEW t \in Thread, Replace(t) PROVE OneRestore'
  BY <1>16 DEF Replace, Goes
<1>17. ASSUME NEW t \in Thread, Install(t) PROVE OneRestore'
  BY <1>17 DEF Install, Goes
<1>18. ASSUME NEW t \in Thread, Reopen(t) PROVE OneRestore'
  BY <1>18 DEF Reopen, Goes
<1>19. ASSUME NEW t \in Thread, NewOverlay(t) PROVE OneRestore'
  BY <1>19 DEF NewOverlay, Goes
<1>20. ASSUME NEW t \in Thread, NewFlushing(t) PROVE OneRestore'
  BY <1>20 DEF NewFlushing, Goes
<1>21. ASSUME Crash PROVE OneRestore'
  BY <1>21 DEF Crash, Idle
<1>22. ASSUME UNCHANGED vars PROVE OneRestore'
  BY <1>22 DEF vars
<1>23. QED
  BY <1>1, <1>2, <1>3, <1>4, <1>5, <1>6, <1>7, <1>8, <1>9, <1>10, <1>11, <1>12, <1>13, <1>14, <1>15, <1>16, <1>17, <1>18, <1>19, <1>20, <1>21, <1>22 DEF Next

\* Restore keeps the database closed and the buffers without places until it
\* has opened the new one.
LEMMA ShutStep == TypeOK /\ OneRestore /\ Shut /\ [Next]_vars => Shut'
<1> SUFFICES ASSUME TypeOK, OneRestore, Shut, [Next]_vars PROVE Shut'
  OBVIOUS
<1> USE DEF TypeOK, OneRestore, InRestore, Shut, InFlush, InGet
<1>1. ASSUME NEW t \in Thread, NEW b \in Batch, WriteBuffered(t, b) PROVE Shut'
  <2>1. overlay'.width = overlay.width
    BY <1>1 DEF WriteBuffered, Buffer
  <2> QED
    BY <1>1, <2>1 DEF WriteBuffered
<1>2. ASSUME NEW t \in Thread, NEW b \in Batch, Write(t, b) PROVE Shut'
  BY <1>2 DEF Write
<1>3. ASSUME NEW t \in Thread, Flush(t) PROVE Shut'
  BY <1>3 DEF Flush, Goes
<1>4. ASSUME NEW t \in Thread, Swap(t) PROVE Shut'
  BY <1>4 DEF Swap, Goes
<1>5. ASSUME NEW t \in Thread, WriteFlushing(t) PROVE Shut'
  <2>1. PICK step \in {"clear", "idle"} : Goes(t, step)
    BY <1>5, WritesFlushing
  <2> QED
    BY <1>5, <2>1, WritesFlushing DEF Goes
<1>6. ASSUME NEW t \in Thread, Clear(t) PROVE Shut'
  BY <1>6 DEF Clear, Goes, Fresh
<1>7. ASSUME NEW t \in Thread, NEW x \in Cell, Get(t, x) PROVE Shut'
  BY <1>7 DEF Get
<1>8. ASSUME NEW t \in Thread, GetFlushing(t) PROVE Shut'
  BY <1>8 DEF GetFlushing, Idle
<1>9. ASSUME NEW t \in Thread, GetDisk(t) PROVE Shut'
  BY <1>9 DEF GetDisk, Goes
<1>10. ASSUME NEW t \in Thread, AddColumn(t) PROVE Shut'
  BY <1>10 DEF AddColumn
<1>11. ASSUME NEW t \in Thread, DropColumn(t) PROVE Shut'
  BY <1>11 DEF DropColumn
<1>12. ASSUME NEW t \in Thread, Close(t) PROVE Shut'
  BY <1>12 DEF Close, Goes
<1>13. ASSUME NEW t \in Thread, ClearOverlay(t) PROVE Shut'
  BY <1>13 DEF ClearOverlay, Goes, Fresh
<1>14. ASSUME NEW t \in Thread, ClearFlushing(t) PROVE Shut'
  BY <1>14 DEF ClearFlushing, Goes, Fresh
<1>15. ASSUME NEW t \in Thread, Rename(t) PROVE Shut'
  BY <1>15 DEF Rename, Goes
<1>16. ASSUME NEW t \in Thread, Replace(t) PROVE Shut'
  BY <1>16 DEF Replace, Goes
<1>17. ASSUME NEW t \in Thread, Install(t) PROVE Shut'
  BY <1>17 DEF Install, Goes
<1>18. ASSUME NEW t \in Thread, Reopen(t) PROVE Shut'
  <2>1. CASE open' = TRUE /\ Goes(t, "newoverlay")
    BY <1>18, <2>1, Reopens DEF Goes
  <2>2. CASE open' = open /\ Goes(t, "idle")
    BY <1>18, <2>2, Reopens DEF Goes
  <2> QED
    BY <1>18, <2>1, <2>2, Reopens
<1>19. ASSUME NEW t \in Thread, NewOverlay(t) PROVE Shut'
  BY <1>19 DEF NewOverlay, Goes, Fresh
<1>20. ASSUME NEW t \in Thread, NewFlushing(t) PROVE Shut'
  BY <1>20 DEF NewFlushing, Goes, Fresh
<1>21. ASSUME Crash PROVE Shut'
  BY <1>21 DEF Crash, Idle
<1>22. ASSUME UNCHANGED vars PROVE Shut'
  BY <1>22 DEF vars
<1>23. QED
  BY <1>1, <1>2, <1>3, <1>4, <1>5, <1>6, <1>7, <1>8, <1>9, <1>10, <1>11, <1>12, <1>13, <1>14, <1>15, <1>16, <1>17, <1>18, <1>19, <1>20, <1>21, <1>22 DEF Next

\* A write, a flush and a change of columns put entries only where a buffer has
\* room.
LEMMA FilledStep == TypeOK /\ Filled /\ [Next]_vars => Filled'
<1> SUFFICES ASSUME TypeOK, Filled, [Next]_vars PROVE Filled'
  OBVIOUS
<1> USE DEF TypeOK, Filled, Within, Buffer, Directory
<1>1. ASSUME NEW t \in Thread, NEW b \in Batch, WriteBuffered(t, b) PROVE Filled'
  <2>1. CASE Within(b, overlay.width) /\ overlay' = [overlay EXCEPT !.at = Over(@, b)]
    BY <1>1, <2>1, BatchTypes DEF WriteBuffered, Over
  <2>2. ASSUME NEW done \in SUBSET {x \in Cell : x[1] < overlay.width},
               overlay' = [overlay EXCEPT !.at = [x \in Cell |-> IF x \in done /\ b[x] # Kept
                                                               THEN b[x] ELSE @[x]]]
        PROVE  Filled'
    BY <1>1, <2>2, BatchTypes DEF WriteBuffered
  <2> QED
    BY <1>1, <2>1, <2>2 DEF WriteBuffered
<1>2. ASSUME NEW t \in Thread, NEW b \in Batch, Write(t, b) PROVE Filled'
  BY <1>2 DEF Write
<1>3. ASSUME NEW t \in Thread, Flush(t) PROVE Filled'
  BY <1>3 DEF Flush, Goes
<1>4. ASSUME NEW t \in Thread, Swap(t) PROVE Filled'
  BY <1>4 DEF Swap, Goes
<1>5. ASSUME NEW t \in Thread, WriteFlushing(t) PROVE Filled'
  BY <1>5 DEF WriteFlushing, Goes
<1>6. ASSUME NEW t \in Thread, Clear(t) PROVE Filled'
  BY <1>6 DEF Clear, Goes, Fresh
<1>7. ASSUME NEW t \in Thread, NEW x \in Cell, Get(t, x) PROVE Filled'
  BY <1>7 DEF Get
<1>8. ASSUME NEW t \in Thread, GetFlushing(t) PROVE Filled'
  BY <1>8 DEF GetFlushing, Idle
<1>9. ASSUME NEW t \in Thread, GetDisk(t) PROVE Filled'
  BY <1>9 DEF GetDisk, Goes
<1>10. ASSUME NEW t \in Thread, AddColumn(t) PROVE Filled'
  BY <1>10 DEF AddColumn
<1>11. ASSUME NEW t \in Thread, DropColumn(t) PROVE Filled'
  BY <1>11 DEF DropColumn
<1>12. ASSUME NEW t \in Thread, Close(t) PROVE Filled'
  BY <1>12 DEF Close, Goes
<1>13. ASSUME NEW t \in Thread, ClearOverlay(t) PROVE Filled'
  BY <1>13 DEF ClearOverlay, Goes, Fresh
<1>14. ASSUME NEW t \in Thread, ClearFlushing(t) PROVE Filled'
  BY <1>14 DEF ClearFlushing, Goes, Fresh
<1>15. ASSUME NEW t \in Thread, Rename(t) PROVE Filled'
  BY <1>15 DEF Rename, Goes
<1>16. ASSUME NEW t \in Thread, Replace(t) PROVE Filled'
  BY <1>16 DEF Replace, Goes
<1>17. ASSUME NEW t \in Thread, Install(t) PROVE Filled'
  BY <1>17 DEF Install, Goes
<1>18. ASSUME NEW t \in Thread, Reopen(t) PROVE Filled'
  BY <1>18 DEF Reopen, Goes
<1>19. ASSUME NEW t \in Thread, NewOverlay(t) PROVE Filled'
  BY <1>19 DEF NewOverlay, Goes, Fresh
<1>20. ASSUME NEW t \in Thread, NewFlushing(t) PROVE Filled'
  BY <1>20 DEF NewFlushing, Goes, Fresh
<1>21. ASSUME Crash PROVE Filled'
  BY <1>21 DEF Crash, Idle, Fresh
<1>22. ASSUME UNCHANGED vars PROVE Filled'
  BY <1>22 DEF vars
<1>23. QED
  BY <1>1, <1>2, <1>3, <1>4, <1>5, <1>6, <1>7, <1>8, <1>9, <1>10, <1>11, <1>12, <1>13, <1>14, <1>15, <1>16, <1>17, <1>18, <1>19, <1>20, <1>21, <1>22 DEF Next

\* Renaming keeps a directory with the data: the database's, or its backup.
LEMMA DirectoriesStep == TypeOK /\ OneRestore /\ Shut /\ Directories /\ [Next]_vars => Directories'
<1> SUFFICES ASSUME TypeOK, OneRestore, Shut, Directories, [Next]_vars PROVE Directories'
  OBVIOUS
<1> USE DEF TypeOK, OneRestore, InRestore, InFlush, InGet, Shut, Directories, Directory
<1>1. ASSUME NEW t \in Thread, NEW b \in Batch, WriteBuffered(t, b) PROVE Directories'
  BY <1>1 DEF WriteBuffered
<1>2. ASSUME NEW t \in Thread, NEW b \in Batch, Write(t, b) PROVE Directories'
  BY <1>2 DEF Write
<1>3. ASSUME NEW t \in Thread, Flush(t) PROVE Directories'
  BY <1>3 DEF Flush, Goes
<1>4. ASSUME NEW t \in Thread, Swap(t) PROVE Directories'
  BY <1>4 DEF Swap, Goes
<1>5. ASSUME NEW t \in Thread, WriteFlushing(t) PROVE Directories'
  <2>1. PICK step \in {"clear", "idle"} : Goes(t, step)
    BY <1>5, WritesFlushing
  <2>2. disk'.is = disk.is
    BY <1>5, WritesFlushing
  <2> QED
    BY <1>5, <2>1, <2>2, WritesFlushing DEF Goes
<1>6. ASSUME NEW t \in Thread, Clear(t) PROVE Directories'
  BY <1>6 DEF Clear, Goes
<1>7. ASSUME NEW t \in Thread, NEW x \in Cell, Get(t, x) PROVE Directories'
  BY <1>7 DEF Get
<1>8. ASSUME NEW t \in Thread, GetFlushing(t) PROVE Directories'
  BY <1>8 DEF GetFlushing, Idle
<1>9. ASSUME NEW t \in Thread, GetDisk(t) PROVE Directories'
  BY <1>9 DEF GetDisk, Goes
<1>10. ASSUME NEW t \in Thread, AddColumn(t) PROVE Directories'
  BY <1>10 DEF AddColumn
<1>11. ASSUME NEW t \in Thread, DropColumn(t) PROVE Directories'
  BY <1>11 DEF DropColumn
<1>12. ASSUME NEW t \in Thread, Close(t) PROVE Directories'
  BY <1>12 DEF Close, Goes
<1>13. ASSUME NEW t \in Thread, ClearOverlay(t) PROVE Directories'
  BY <1>13 DEF ClearOverlay, Goes
<1>14. ASSUME NEW t \in Thread, ClearFlushing(t) PROVE Directories'
  BY <1>14 DEF ClearFlushing, Goes
<1>15. ASSUME NEW t \in Thread, Rename(t) PROVE Directories'
  <2>1. CASE disk.is /\ ~backup.is /\ backup' = disk /\ disk' = NoDirectory /\ Goes(t, "replace")
    BY <1>15, <2>1, NewDirectoryTypes DEF Rename, Goes, NoDirectory
  <2>2. CASE disk' = disk /\ backup' = backup /\ Goes(t, IF disk.is THEN "idle" ELSE "install")
    BY <1>15, <2>2, NewDirectoryTypes DEF Rename, Goes, NoDirectory
  <2> QED
    BY <1>15, <2>1, <2>2 DEF Rename
<1>16. ASSUME NEW t \in Thread, Replace(t) PROVE Directories'
  <2>1. CASE disk' = NewDirectory /\ Goes(t, "reopen")
    BY <1>16, <2>1, NewDirectoryTypes DEF Replace, Goes, NoDirectory
  <2>2. CASE disk' = NewDirectory /\ Goes(t, "idle") /\ UNCHANGED backup
    BY <1>16, <2>2, NewDirectoryTypes DEF Replace, Goes, NoDirectory
  <2>3. CASE disk' = backup /\ Goes(t, "idle")
    BY <1>16, <2>3, NewDirectoryTypes DEF Replace, Goes, NoDirectory
  <2>4. CASE UNCHANGED <<disk, backup>> /\ Goes(t, "idle")
    BY <1>16, <2>4, NewDirectoryTypes DEF Replace, Goes, NoDirectory
  <2> QED
    BY <1>16, <2>1, <2>2, <2>3, <2>4 DEF Replace
<1>17. ASSUME NEW t \in Thread, Install(t) PROVE Directories'
  <2>1. CASE disk' = NewDirectory /\ Goes(t, "reopen")
    BY <1>17, <2>1, NewDirectoryTypes DEF Install, Goes, NoDirectory
  <2>2. CASE UNCHANGED disk /\ Goes(t, "idle")
    BY <1>17, <2>2, NewDirectoryTypes DEF Install, Goes, NoDirectory
  <2> QED
    BY <1>17, <2>1, <2>2 DEF Install
<1>18. ASSUME NEW t \in Thread, Reopen(t) PROVE Directories'
  <2>1. CASE open' = TRUE /\ Goes(t, "newoverlay")
    BY <1>18, <2>1, Reopens DEF Goes
  <2>2. CASE open' = open /\ Goes(t, "idle")
    BY <1>18, <2>2, Reopens DEF Goes
  <2> QED
    BY <1>18, <2>1, <2>2, Reopens
<1>19. ASSUME NEW t \in Thread, NewOverlay(t) PROVE Directories'
  BY <1>19 DEF NewOverlay, Goes
<1>20. ASSUME NEW t \in Thread, NewFlushing(t) PROVE Directories'
  BY <1>20 DEF NewFlushing, Goes
<1>21. ASSUME Crash PROVE Directories'
  BY <1>21 DEF Crash, Idle
<1>22. ASSUME UNCHANGED vars PROVE Directories'
  BY <1>22 DEF vars
<1>23. QED
  BY <1>1, <1>2, <1>3, <1>4, <1>5, <1>6, <1>7, <1>8, <1>9, <1>10, <1>11, <1>12, <1>13, <1>14, <1>15, <1>16, <1>17, <1>18, <1>19, <1>20, <1>21, <1>22 DEF Next

\* Writes, flushes, restores and changes of columns keep the lengths of the
\* buffers what the columns need, but for those the code leaves short.
LEMMA SizedStep == TypeOK /\ OneRestore /\ Shut /\ Filled /\ Sized /\ [Next]_vars => Sized'
<1> SUFFICES ASSUME TypeOK, OneRestore, Shut, Filled, Sized, [Next]_vars PROVE Sized'
  OBVIOUS
<1> USE DEF TypeOK, OneRestore, InRestore, InFlush, InGet, Shut, Filled, Within, Sized, Unlocked, DbFree, Directory, Buffer
<1>1. ASSUME NEW t \in Thread, NEW b \in Batch, WriteBuffered(t, b) PROVE Sized'
  BY <1>1 DEF WriteBuffered
<1>2. ASSUME NEW t \in Thread, NEW b \in Batch, Write(t, b) PROVE Sized'
  BY <1>2 DEF Write
<1>3. ASSUME NEW t \in Thread, Flush(t) PROVE Sized'
  BY <1>3 DEF Flush, Goes
<1>4. ASSUME NEW t \in Thread, Swap(t) PROVE Sized'
  <2>1. CASE open
    <3>1. CASE reshaped'
      BY <3>1
    <3>2. CASE ~reshaped'
      <4>1. ~reshaped /\ \A u \in Thread : ~InRestore(u)
        BY <1>4, <2>1, <3>2 DEF Swap
      <4>2. /\ overlay'.width = disk.cols + 1 /\ flushing'.width = disk.cols + 1
            /\ pc' = [pc EXCEPT ![t] = [at |-> "write", x |-> NoCell]]
            /\ UNCHANGED <<open, disk>>
        BY <1>4, <2>1, <4>1 DEF Swap, Goes
      <4>3. pc'[t].at = "write" /\ \A u \in Thread : u # t => pc'[u] = pc[u]
        BY <4>2
      <4>4. \A u \in Thread : pc'[u].at \notin {"reopen", "newoverlay", "newflushing"}
                              /\ ~(InRestore(u)')
        BY <4>1, <4>3
      <4> QED
        BY <2>1, <4>2, <4>3, <4>4
    <3> QED
      BY <3>1, <3>2
  <2>2. CASE ~open
    BY <1>4, <2>2 DEF Swap, Goes
  <2> QED
    BY <2>1, <2>2
<1>5. ASSUME NEW t \in Thread, WriteFlushing(t) PROVE Sized'
  <2>1. disk'.cols = disk.cols
    BY <1>5, WritesFlushing
  <2>2. CASE Goes(t, "clear") /\ UNCHANGED flag
    BY <1>5, <2>1, <2>2, WritesFlushing, ZenonT(40) DEF Goes
  <2>3. CASE Goes(t, "idle") /\ flag' = FALSE
    BY <1>5, <2>1, <2>3, WritesFlushing, ZenonT(40) DEF Goes
  <2>4. CASE ~Within(flushing.at, disk.cols + 1) /\ Goes(t, "idle")
    <3>1. CASE reshaped
      BY <1>5, <3>1, WritesFlushing
    <3>2. CASE ~reshaped
      <4>1. open /\ \A u \in Thread : ~InRestore(u)
        BY <1>5, <3>2, WritesFlushing
      <4>2. flushing.width = disk.cols + 1
        BY <3>2, <4>1
      <4> QED
        BY <2>4, <4>2
    <3> QED
      BY <3>1, <3>2
  <2> QED
    BY <1>5, <2>2, <2>3, <2>4 DEF WriteFlushing
<1>6. ASSUME NEW t \in Thread, Clear(t) PROVE Sized'
  BY <1>6 DEF Clear, Goes, Fresh
<1>7. ASSUME NEW t \in Thread, NEW x \in Cell, Get(t, x) PROVE Sized'
  BY <1>7 DEF Get
<1>8. ASSUME NEW t \in Thread, GetFlushing(t) PROVE Sized'
  BY <1>8 DEF GetFlushing, Idle
<1>9. ASSUME NEW t \in Thread, GetDisk(t) PROVE Sized'
  BY <1>9 DEF GetDisk, Goes
<1>10. ASSUME NEW t \in Thread, AddColumn(t) PROVE Sized'
  BY <1>10 DEF AddColumn
<1>11. ASSUME NEW t \in Thread, DropColumn(t) PROVE Sized'
  BY <1>11 DEF DropColumn
<1>12. ASSUME NEW t \in Thread, Close(t) PROVE Sized'
  BY <1>12 DEF Close, Goes
<1>13. ASSUME NEW t \in Thread, ClearOverlay(t) PROVE Sized'
  BY <1>13 DEF ClearOverlay, Goes, Fresh
<1>14. ASSUME NEW t \in Thread, ClearFlushing(t) PROVE Sized'
  BY <1>14 DEF ClearFlushing, Goes, Fresh
<1>15. ASSUME NEW t \in Thread, Rename(t) PROVE Sized'
  <2>1. CASE disk.is /\ ~backup.is /\ backup' = disk /\ disk' = NoDirectory /\ Goes(t, "replace")
    BY <1>15, <2>1, NewDirectoryTypes DEF Rename, Goes, NoDirectory
  <2>2. CASE disk' = disk /\ backup' = backup /\ Goes(t, IF disk.is THEN "idle" ELSE "install")
    BY <1>15, <2>2, NewDirectoryTypes DEF Rename, Goes, NoDirectory
  <2> QED
    BY <1>15, <2>1, <2>2 DEF Rename
<1>16. ASSUME NEW t \in Thread, Replace(t) PROVE Sized'
  <2>1. CASE disk' = NewDirectory /\ Goes(t, "reopen")
    BY <1>16, <2>1, NewDirectoryTypes DEF Replace, Goes, NoDirectory
  <2>2. CASE disk' = NewDirectory /\ Goes(t, "idle") /\ UNCHANGED backup
    BY <1>16, <2>2, NewDirectoryTypes DEF Replace, Goes, NoDirectory
  <2>3. CASE disk' = backup /\ Goes(t, "idle")
    BY <1>16, <2>3, NewDirectoryTypes, ZenonT(40) DEF Replace, Goes, NoDirectory
  <2>4. CASE UNCHANGED <<disk, backup>> /\ Goes(t, "idle")
    BY <1>16, <2>4, NewDirectoryTypes DEF Replace, Goes, NoDirectory
  <2> QED
    BY <1>16, <2>1, <2>2, <2>3, <2>4 DEF Replace
<1>17. ASSUME NEW t \in Thread, Install(t) PROVE Sized'
  <2>1. CASE disk' = NewDirectory /\ Goes(t, "reopen")
    BY <1>17, <2>1, NewDirectoryTypes DEF Install, Goes, NoDirectory
  <2>2. CASE UNCHANGED disk /\ Goes(t, "idle")
    BY <1>17, <2>2, NewDirectoryTypes DEF Install, Goes, NoDirectory
  <2> QED
    BY <1>17, <2>1, <2>2 DEF Install
<1>18. ASSUME NEW t \in Thread, Reopen(t) PROVE Sized'
  <2>1. CASE open' = TRUE /\ Goes(t, "newoverlay")
    <3>1. pc[t].at = "reopen" /\ InRestore(t) /\ UNCHANGED <<disk, overlay, flushing, flag, reshaped>>
      BY <1>18, Reopens
    <3>2. pc'[t].at = "newoverlay" /\ \A u \in Thread : u # t => pc'[u] = pc[u]
      BY <2>1 DEF Goes
    <3>3. ~reshaped => \A u \in Thread : pc[u].at \notin {"write", "clear"}
      BY <3>1
    <3>4. \A u \in Thread : u # t => pc[u].at # "newflushing"
      BY <3>1
    <3>5. ~reshaped' => disk'.cols = Columns
      BY <3>1
    <3>6. ~reshaped' /\ flag' => ~Unlocked'
      BY <3>1, <3>2
    <3> QED
      BY <3>1, <3>2, <3>3, <3>4, <3>5, <3>6
  <2>2. CASE open' = open /\ Goes(t, "idle")
    <3>1. pc[t].at = "reopen" /\ ~open' /\ UNCHANGED <<disk, overlay, flushing, flag, reshaped>>
      BY <1>18, <2>2, Reopens
    <3>2. pc'[t].at = "idle" /\ \A u \in Thread : u # t => pc'[u] = pc[u]
      BY <2>2 DEF Goes
    <3>3. ~reshaped => \A u \in Thread : pc[u].at \notin {"write", "clear"}
      BY <3>1
    <3>4. ~reshaped' /\ flag' => ~Unlocked'
      BY <3>1, <3>2
    <3> QED
      BY <3>1, <3>2, <3>3, <3>4
  <2> QED
    BY <1>18, <2>1, <2>2, Reopens
<1>19. ASSUME NEW t \in Thread, NewOverlay(t) PROVE Sized'
  BY <1>19 DEF NewOverlay, Goes, Fresh
<1>20. ASSUME NEW t \in Thread, NewFlushing(t) PROVE Sized'
  BY <1>20 DEF NewFlushing, Goes, Fresh
<1>21. ASSUME Crash PROVE Sized'
  BY <1>21 DEF Crash, Idle, Fresh
<1>22. ASSUME UNCHANGED vars PROVE Sized'
  BY <1>22 DEF vars
<1>23. QED
  BY <1>1, <1>2, <1>3, <1>4, <1>5, <1>6, <1>7, <1>8, <1>9, <1>10, <1>11, <1>12, <1>13, <1>14, <1>15, <1>16, <1>17, <1>18, <1>19, <1>20, <1>21, <1>22 DEF Next

-----------------------------------------------------------------------------
(* The theorems                                                              *)

\* The inductive invariant holds of every run: whatever is called at once, lost,
\* restored or flushed in vain, a get keeps what it has read under its locks, one
\* restore at most is moving directories, and the buffers fit the columns.
THEOREM Invariance == Spec => []IInv
<1>1. Init => IInv
  <2> SUFFICES ASSUME Init PROVE IInv
    OBVIOUS
  <2>1. TypeOK
    BY TypeInit
  <2>2. Columns + 1 \in 0 .. MaxCol + 1
    BY KvDbAssumption
  <2> QED
    BY <2>1, <2>2, FreshTypes, NewDirectoryTypes
    DEF Init, IInv, Idle, Gets, InGet, OneRestore, InRestore, InFlush, Shut, Filled, Directories, Sized
<1>2. IInv /\ [Next]_vars => IInv'
  BY TypeStep, GetsStep, OneRestoreStep, ShutStep, FilledStep, DirectoriesStep, SizedStep DEF IInv
<1> QED
  BY <1>1, <1>2, PTL DEF Spec

\* The state is well typed in every run.
THEOREM TypeCorrect == Spec => []TypeOK
BY Invariance, PTL DEF IInv

\* What is read: an operator of the values of the variables.
Reading(isOpen, over, under, cells) ==
  [x \in Cell |-> IF ~isOpen THEN Blank
                 ELSE IF over[x] # Kept THEN Written(over[x], FALSE)
                 ELSE IF under[x] # Kept THEN Written(under[x], FALSE) ELSE cells[x]]

\* The map writes an entry as the database does.
LEMMA SameWritten == \A e, packed : Promised!Written(e, packed) = Written(e, packed)
BY DEF Promised!Written, Written

\* What a caller sees is decided by the buffers and the disk, in this step and
\* after it.
LEMMA VisibleIs ==
  /\ TypeOK => Visible = Reading(open, overlay.at, flushing.at, disk.at)
  /\ TypeOK' => Visible' = Reading(open', overlay'.at, flushing'.at, disk'.at)
<1>1. TypeOK => \A x \in Cell : /\ (overlay.at[x].do = "none") = (overlay.at[x] = Kept)
                                /\ (flushing.at[x].do = "none") = (flushing.at[x] = Kept)
  BY DEF TypeOK, Buffer
<1>2. TypeOK' => \A x \in Cell : /\ (overlay'.at[x].do = "none") = (overlay'.at[x] = Kept)
                                 /\ (flushing'.at[x].do = "none") = (flushing'.at[x] = Kept)
  BY DEF TypeOK, Buffer
<1> QED
  BY <1>1, <1>2 DEF TypeOK, Visible, Reading

\* A get that has passed the overlay, or both buffers, answers with what the store
\* holds when it answers, whatever other threads have done since it began.
THEOREM GetStaysAtomic == Spec => []GetIsAtomic
<1>1. IInv => GetIsAtomic
  BY VisibleIs DEF IInv, Gets, GetIsAtomic, Answer, InGet, Reading
<1> QED
  BY <1>1, Invariance, PTL

\* The buffers have a place for each column, the flag is set by a running flush
\* only, and one of the directories is there.
THEOREM RemainsUsable == Spec => []StaysUsable
<1>1. IInv => StaysUsable
  BY DEF IInv, Directories, Sized, StaysUsable
<1> QED
  BY <1>1, Invariance, PTL

-----------------------------------------------------------------------------
(* The refinement                                                            *)

\* A step that leaves buffers and disk alone, or happens while the database is
\* closed, is a stutter of the map.
LEMMA Same ==
  ASSUME TypeOK, TypeOK', UNCHANGED <<last, losses>>,
         UNCHANGED <<open, overlay.at, flushing.at, disk.at>> \/ (~open /\ ~open')
  PROVE  [Promised!Next]_(Promised!vars)
<1>1. CASE UNCHANGED <<open, overlay.at, flushing.at, disk.at>>
  <2>1. Visible' = Visible
    BY <1>1, VisibleIs
  <2> QED
    BY <2>1 DEF Promised!vars
<1>2. CASE ~open /\ ~open'
  <2>1. Visible = [x \in Cell |-> Blank] /\ Visible' = [x \in Cell |-> Blank]
    BY <1>2, VisibleIs DEF Reading
  <2> QED
    BY <2>1 DEF Promised!vars
<1> QED
  BY <1>1, <1>2

\* A step that is counted as a loss is the map's Lose.
LEMMA Lost ==
  ASSUME TypeOK, NEW condition, Loses(condition), condition
  PROVE  [Promised!Next]_(Promised!vars)
BY DEF Loses, TypeOK, Promised!Next, Promised!Lose

\* write_buffered is a transaction of the map, or a counted loss.
LEMMA Buffered ==
  ASSUME TypeOK, TypeOK', NEW t \in Thread, NEW b \in Batch, WriteBuffered(t, b)
  PROVE  [Promised!Next]_(Promised!vars)
<1>1. CASE losses' # losses
  BY <1>1 DEF Promised!Next, Promised!Lose
<1>2. CASE losses' = losses
  <2>1. open /\ overlay' = [overlay EXCEPT !.at = Over(@, b)] /\ Accepted(b)
        /\ UNCHANGED <<open, disk, flushing>>
    BY <1>2 DEF WriteBuffered, Loses, TypeOK
  <2>2. Visible' = Promised!Applied(Visible, b, FALSE)
    <3>1. \A x \in Cell : overlay'.at[x] = IF b[x] = Kept THEN overlay.at[x] ELSE b[x]
      BY <2>1 DEF Over, TypeOK, Buffer
    <3>2. Visible' = [x \in Cell |-> IF b[x] = Kept THEN Visible[x]
                                    ELSE Written(b[x], FALSE)]
      <4>1. /\ Visible = Reading(TRUE, overlay.at, flushing.at, disk.at)
            /\ Visible' = Reading(TRUE, overlay'.at, flushing.at, disk.at)
        BY <2>1, VisibleIs
      <4>2. ASSUME NEW x \in Cell
            PROVE  Reading(TRUE, overlay'.at, flushing.at, disk.at)[x] =
                     IF b[x] = Kept THEN Reading(TRUE, overlay.at, flushing.at, disk.at)[x]
                     ELSE Written(b[x], FALSE)
        BY <3>1 DEF Reading
      <4>3. Visible' = [x \in Cell |-> Reading(TRUE, overlay'.at, flushing.at, disk.at)[x]]
        BY <4>1 DEF Reading
      <4> QED
        BY <4>1, <4>2, <4>3
    <3> QED
      BY <3>2, SameWritten DEF Promised!Applied
  <2> QED
    BY <1>2, <2>1, <2>2 DEF Promised!Next, Promised!Write, Accepted
<1> QED
  BY <1>1, <1>2

\* write is a transaction of the map, or a counted loss when the overlay hides
\* what it wrote.
LEMMA WrittenThrough ==
  ASSUME TypeOK, TypeOK', NEW t \in Thread, NEW b \in Batch, Write(t, b)
  PROVE  [Promised!Next]_(Promised!vars)
<1>1. CASE losses' # losses
  BY <1>1 DEF Promised!Next, Promised!Lose
<1>2. CASE losses' = losses
  <2>1. /\ open /\ disk' = [disk EXCEPT !.at = OnDisk(@, b, FALSE)] /\ Accepted(b)
        /\ UNCHANGED <<open, overlay, flushing>>
    BY DEF Write
  <2>2. \A x \in Cell : b[x] # Kept => overlay.at[x] = Kept /\ flushing.at[x] = Kept
    BY <1>2 DEF Write, Loses, TypeOK
  <2>3. Visible' = Promised!Applied(Visible, b, TRUE)
    <3>1. \A x \in Cell : disk'.at[x] = IF b[x] = Kept THEN disk.at[x]
                                        ELSE Written(b[x], TRUE)
      BY <2>1 DEF OnDisk, TypeOK, Directory
    <3>2. Visible' = [x \in Cell |-> IF b[x] = Kept THEN Visible[x]
                                    ELSE Written(b[x], TRUE)]
      <4>1. /\ Visible = Reading(TRUE, overlay.at, flushing.at, disk.at)
            /\ Visible' = Reading(TRUE, overlay.at, flushing.at, disk'.at)
        BY <2>1, VisibleIs
      <4>2. ASSUME NEW x \in Cell
            PROVE  Reading(TRUE, overlay.at, flushing.at, disk'.at)[x] =
                     IF b[x] = Kept THEN Reading(TRUE, overlay.at, flushing.at, disk.at)[x]
                     ELSE Written(b[x], TRUE)
        BY <2>2, <3>1 DEF Reading
      <4>3. Visible' = [x \in Cell |-> Reading(TRUE, overlay.at, flushing.at, disk'.at)[x]]
        BY <4>1 DEF Reading
      <4> QED
        BY <4>1, <4>2, <4>3
    <3> QED
      BY <3>2, SameWritten DEF Promised!Applied
  <2> QED
    BY <1>2, <2>1, <2>3 DEF Promised!Next, Promised!Write, Accepted
<1> QED
  BY <1>1, <1>2

\* The swap that begins a flush changes nothing that a caller sees, unless an
\* earlier flush has left entries behind.
LEMMA Swapped ==
  ASSUME TypeOK, TypeOK', NEW t \in Thread, Swap(t)
  PROVE  [Promised!Next]_(Promised!vars)
<1>1. CASE losses' # losses
  BY <1>1 DEF Promised!Next, Promised!Lose
<1>2. CASE ~open
  BY <1>2, Same DEF Swap
<1>3. CASE open /\ losses' = losses
  <2>1. IsEmpty(flushing) /\ overlay' = flushing /\ flushing' = overlay /\ UNCHANGED <<open, disk>>
    BY <1>3 DEF Swap, Loses, TypeOK
  <2>2. Visible' = Visible
    BY <2>1, VisibleIs DEF Reading, IsEmpty
  <2> QED
    BY <1>3, <2>2 DEF Swap, Promised!vars
<1> QED
  BY <1>1, <1>2, <1>3

\* What is written is what was read from flushing, and stays hidden by it.
LEMMA FlushingWritten ==
  ASSUME TypeOK, TypeOK', NEW t \in Thread, WriteFlushing(t)
  PROVE  [Promised!Next]_(Promised!vars)
<1>1. CASE UNCHANGED disk
  BY <1>1, WritesFlushing, Same
<1>2. CASE disk' = [disk EXCEPT !.at = OnDisk(@, flushing.at, TRUE)]
  <2>1. UNCHANGED <<open, overlay, flushing, last, losses>>
    BY WritesFlushing
  <2>2. Visible' = Visible
    BY <1>2, <2>1, VisibleIs, ZenonT(40) DEF Reading, OnDisk, TypeOK, Directory
  <2> QED
    BY <2>1, <2>2 DEF Promised!vars
<1> QED
  BY <1>1, <1>2, WritesFlushing

\* The clearing that ends a flush shows what it has written: the values as they were
\* in the buffer, but for those that were compressed on the way.
LEMMA Cleared ==
  ASSUME TypeOK, TypeOK', NEW t \in Thread, Clear(t)
  PROVE  [Promised!Next]_(Promised!vars)
<1>1. CASE losses' # losses
  BY <1>1 DEF Promised!Next, Promised!Lose
<1>2. CASE losses' = losses
  <2> DEFINE packed == {x \in Cell : /\ Visible[x].form = "compressible"
                                     /\ Visible'[x].form = "compressed"}
  <2>1. OnDisk(disk.at, flushing.at, TRUE) = disk.at
    <3>1. OnDisk(disk.at, flushing.at, TRUE) # disk.at => losses' = losses + 1
      BY DEF Clear, Loses
    <3>2. losses + 1 # losses
      BY DEF TypeOK
    <3> QED
      BY <1>2, <3>1, <3>2
  <2>2. /\ \A x \in Cell : flushing'.at[x] = Kept
        /\ UNCHANGED <<open, disk, overlay, last>>
    BY DEF Clear, Fresh
  <2>3. ASSUME NEW x \in Cell
        PROVE  Visible'[x] = IF x \in packed THEN [Visible[x] EXCEPT !.form = "compressed"]
                             ELSE Visible[x]
    <3>1. flushing.at[x] # Kept => disk.at[x] = Written(flushing.at[x], x[1] # 0)
      BY <2>1 DEF OnDisk
    <3>2. CASE open /\ overlay.at[x] = Kept /\ flushing.at[x] # Kept
      <4>1. Visible[x] = Written(flushing.at[x], FALSE)
        BY <3>2, VisibleIs DEF Reading
      <4>2. Visible'[x] = Written(flushing.at[x], x[1] # 0)
        BY <2>2, <3>1, <3>2, VisibleIs DEF Reading
      <4> QED
        <5>1. flushing.at[x].do = "compressed" /\ x[1] # 0 =>
                /\ Visible[x].form = "compressible"
                /\ Visible'[x] = [Visible[x] EXCEPT !.form = "compressed"]
          BY <4>1, <4>2 DEF Written
        <5>2. ~(flushing.at[x].do = "compressed" /\ x[1] # 0) => Visible'[x] = Visible[x]
          BY <4>1, <4>2 DEF Written
        <5>3. [Visible[x] EXCEPT !.form = "compressed"].form = "compressed"
          BY <4>1 DEF Written
        <5> QED
          BY <5>1, <5>2, <5>3
    <3>3. CASE ~(open /\ overlay.at[x] = Kept /\ flushing.at[x] # Kept)
      <4>1. /\ Visible = Reading(open, overlay.at, flushing.at, disk.at)
            /\ Visible' = Reading(open, overlay.at, flushing'.at, disk.at)
        BY <2>2, VisibleIs
      <4>2. CASE ~open
        BY <4>1, <4>2 DEF Reading
      <4>3. CASE overlay.at[x] # Kept
        BY <4>1, <4>3 DEF Reading
      <4>4. CASE flushing.at[x] = Kept
        BY <2>2, <4>1, <4>4 DEF Reading
      <4> QED
        BY <3>3, <4>2, <4>3, <4>4
    <3> QED
      BY <3>2, <3>3
  <2>4. Visible' = [x \in Cell |-> IF x \in packed
                                    THEN [Visible[x] EXCEPT !.form = "compressed"]
                                    ELSE Visible[x]]
    <3>1. Visible' = [x \in Cell |-> Visible'[x]]
      BY VisibleIs DEF Reading
    <3> HIDE DEF packed
    <3> QED
      BY <2>3, <3>1
  <2>5. packed \in SUBSET {x \in Cell : Visible[x].form = "compressible"}
    OBVIOUS
  <2>6. Promised!Pack
    <3> HIDE DEF packed
    <3> QED
      BY <1>2, <2>2, <2>4, <2>5 DEF Promised!Pack
  <2> QED
    BY <2>6 DEF Promised!Next
<1> QED
  BY <1>1, <1>2

\* The steps of a restore: a buffer without a place has no entry to lose.
LEMMA Restored ==
  ASSUME IInv, TypeOK', NEW t \in Thread,
         ClearOverlay(t) \/ ClearFlushing(t) \/ Rename(t) \/ Replace(t) \/ Install(t)
           \/ Reopen(t) \/ NewOverlay(t) \/ NewFlushing(t)
  PROVE  [Promised!Next]_(Promised!vars)
<1>1. CASE losses' # losses
  BY <1>1 DEF Promised!Next, Promised!Lose
<1>2. CASE ClearOverlay(t) \/ ClearFlushing(t) \/ Rename(t) \/ Replace(t) \/ Install(t)
  <2>1. ~open /\ UNCHANGED <<open, last, losses>>
    BY <1>2 DEF IInv, Shut, ClearOverlay, ClearFlushing, Rename, Replace, Install
  <2> QED
    BY <2>1, Same DEF IInv
<1>3. CASE Reopen(t) /\ losses' = losses
  <2>1. UNCHANGED <<open, overlay, flushing, disk, last, losses>>
    BY <1>3 DEF Reopen, Loses, IInv, TypeOK
  <2> QED
    BY <2>1, Same DEF IInv
<1>4. CASE NewOverlay(t)
  <2>1. \A x \in Cell : overlay.at[x] = Kept /\ overlay'.at[x] = Kept
    BY <1>4 DEF IInv, TypeOK, Shut, Filled, Within, Buffer, NewOverlay, Fresh
  <2>2. Visible' = Visible
    BY <1>4, <2>1, VisibleIs DEF Reading, NewOverlay, IInv
  <2> QED
    BY <1>4, <2>2 DEF NewOverlay, Promised!vars
<1>5. CASE NewFlushing(t) /\ losses' = losses
  <2>1. \A x \in Cell : flushing.at[x] = Kept /\ flushing'.at[x] = Kept
    BY <1>5 DEF NewFlushing, Fresh, Loses, IsEmpty, IInv, TypeOK
  <2>2. Visible' = Visible
    BY <1>5, <2>1, VisibleIs DEF Reading, NewFlushing, IInv
  <2> QED
    BY <1>5, <2>2 DEF NewFlushing, Promised!vars
<1> QED
  BY <1>1, <1>2, <1>3, <1>4, <1>5

\* Every run of KvDb is a run of the map: a transaction is seen by all readers at
\* once when its call returns, although it passes through two buffers and a flush,
\* and nothing else changes what is read, but the compression of values that were
\* given to put_compressed, from then on, and the events `losses' counts.
THEOREM Refinement == Spec => ImplementsMap
<1>1. Init => Promised!Init
  <2> SUFFICES ASSUME Init PROVE Promised!Init
    OBVIOUS
  <2>1. Visible = [x \in Cell |-> Blank]
    BY TypeInit, VisibleIs DEF Init, Reading, Fresh, NewDirectory, NoDirectory
  <2> QED
    BY <2>1 DEF Init, Promised!Init, Promised!Missing, Blank
<1>2. IInv /\ IInv' /\ [Next]_vars => [Promised!Next]_(Promised!vars)
  <2> SUFFICES ASSUME IInv, IInv', [Next]_vars PROVE [Promised!Next]_(Promised!vars)
    OBVIOUS
  <2> USE DEF IInv
  <2>1. ASSUME NEW t \in Thread, NEW b \in Batch, WriteBuffered(t, b) \/ Write(t, b)
        PROVE  [Promised!Next]_(Promised!vars)
    BY <2>1, Buffered, WrittenThrough
  <2>2. ASSUME NEW t \in Thread, Flush(t) \/ Swap(t) \/ WriteFlushing(t) \/ Clear(t)
        PROVE  [Promised!Next]_(Promised!vars)
    BY <2>2, Same, Swapped, FlushingWritten, Cleared DEF Flush
  <2>3. ASSUME NEW t \in Thread, NEW x \in Cell, Get(t, x)
        PROVE  [Promised!Next]_(Promised!vars)
    BY <2>3, Same DEF Get
  <2>4. ASSUME NEW t \in Thread, GetFlushing(t) \/ GetDisk(t)
        PROVE  [Promised!Next]_(Promised!vars)
    BY <2>4, Same DEF GetFlushing, GetDisk
  <2>5. ASSUME NEW t \in Thread, AddColumn(t)
        PROVE  [Promised!Next]_(Promised!vars)
    <3>1. UNCHANGED <<open, overlay.at, flushing.at, disk.at, last, losses>>
      BY <2>5 DEF AddColumn, TypeOK, Directory
    <3> QED
      BY <3>1, Same
  <2>6. ASSUME NEW t \in Thread, DropColumn(t) \/ Close(t)
        PROVE  [Promised!Next]_(Promised!vars)
    BY <2>6, Lost DEF DropColumn, Close
  <2>7. ASSUME NEW t \in Thread,
               ClearOverlay(t) \/ ClearFlushing(t) \/ Rename(t) \/ Replace(t) \/ Install(t)
                 \/ Reopen(t) \/ NewOverlay(t) \/ NewFlushing(t)
        PROVE  [Promised!Next]_(Promised!vars)
    BY <2>7, Restored
  <2>8. CASE Crash
    BY <2>8, Lost DEF Crash
  <2>9. CASE UNCHANGED vars
    BY <2>9, Same DEF vars
  <2> QED
    BY <2>1, <2>2, <2>3, <2>4, <2>5, <2>6, <2>7, <2>8, <2>9 DEF Next
<1> QED
  BY <1>1, <1>2, Invariance, PTL DEF Spec, ImplementsMap, Promised!Spec

=============================================================================
