------------------------------ MODULE SqliteWal ------------------------------
(***************************************************************************)
(* A database of the program: SQLite's write-ahead log and the part of the *)
(* pager above it (src/Database/sqlite3.c), as create_db in Util.hs opens  *)
(* it.  The connection is the only one (locking_mode = EXCLUSIVE), so the  *)
(* wal-index is in its own memory and is rebuilt from the log when the     *)
(* program starts.  A page's content is the number of the transaction that *)
(* wrote it.  What was written survives the end of the process; only what  *)
(* was synced since surely survives a loss of power.                       *)
(***************************************************************************)
EXTENDS Integers, Sequences, FiniteSets, FiniteSetsExt, Functions

CONSTANTS
    Pages,      \* 1..n: the pages of the database
    CheckpointAt,  \* frames in the log that start a checkpoint (1000)
    MaxFrames,  \* bound: frames in the log
    MaxTxns,    \* bound: write transactions begun
    MaxFaults, MaxLosses  \* bounds: failed writes and syncs and kills; losses of power

ASSUME WalAssumption ==
    /\ Pages \subseteq Nat \ {0} /\ IsFiniteSet(Pages) /\ 1 \in Pages
    /\ CheckpointAt \in Nat \ {0} /\ MaxFrames \in Nat \ {0} /\ MaxTxns \in Nat

VARIABLES
    file,      \* [db, log]: the two files as a process reads them
    disk,      \* [db, log]: as they were when each was last synced
    pc,        \* where the connection is
    index,     \* the wal-index: [hdr, backfill]
    hdr,       \* the connection's own header; ahead of the index while frames
               \* of its transaction are in the log
    usesLog,   \* the read transaction looks into the log (readLock > 0)
    cache,     \* the pager's pages
    dirty,     \* pages changed and not yet in the log
    list,      \* pages that are being written to the log
    commit,    \* they end a transaction
    toCopy,    \* pages a checkpoint has still to copy, with their frames
    callback,  \* frames in the log after a commit, until the wal hook is called
    txns, salts, faults, losses,  \* numbers of each so far
    mods,      \* history: pages the transaction changed
    current,   \* history: what the program was told is in the database
    pending,   \* history: what unreported commits would make of it
    broken     \* history: the defects that have occurred

files == <<file, disk>>
reader == <<usesLog, cache>>
writer == <<dirty, list, commit, mods>>
checkpointer == <<toCopy, callback>>
bounds == <<txns, salts, faults, losses>>
history == <<current, pending, broken>>
vars == <<files, pc, index, hdr, reader, writer, checkpointer, bounds, history>>

-----------------------------------------------------------------------------
None == -1      \* a page that is not in the cache
Torn == -2      \* a page half written
Slots == 0..MaxFrames

\* Slot 0 of the log is its header, with a salt.  A frame repeats the salt, and
\* its checksum goes on from the one before.  A slot half written is a NoFrame.
NoFrame == [salt |-> 0, pg |-> 0, txn |-> 0, commit |-> FALSE, sum |-> <<>>]
NoHdr == [mx |-> 0, salt |-> 0, sum |-> <<>>]
NoPages == [p \in Pages |-> None]

LastFrame(log, mx, p) ==
    LET fs == {f \in 1..mx : log[f].pg = p}
    IN  IF fs = {} THEN 0 ELSE Max(fs)

PageAt(fl, mx, p) ==
    LET f == LastFrame(fl.log, mx, p) IN IF f = 0 THEN fl.db[p] ELSE fl.log[f].txn

Checksum(before, p, t, mark) == Append(before, <<p, t, mark>>)

\* walDecodeFrame.
ValidFrame(log, i) ==
    /\ log[i].salt = log[0].salt /\ log[i].salt > 0
    /\ log[i].sum = Checksum(IF i = 1 THEN <<log[0].salt>> ELSE log[i - 1].sum,
                             log[i].pg, log[i].txn, log[i].commit)

\* walIndexRecover: frames are taken up to the first that is not valid, and of
\* these those up to the last commit.
Recovered(log) ==
    LET ends == {i \in 1..MaxFrames : log[i].commit /\ \A j \in 1..i : ValidFrame(log, j)}
    IN  IF ends = {} THEN NoHdr
        ELSE [mx |-> Max(ends), salt |-> log[0].salt, sum |-> log[Max(ends)].sum]

Found(fl) == LET mx == Recovered(fl.log).mx IN [p \in Pages |-> PageAt(fl, mx, p)]

\* What the transaction makes of the database.
Result == [p \in Pages |-> IF p \in mods THEN txns ELSE current[p]]

Init ==
    /\ file = [db |-> [p \in Pages |-> 0], log |-> [f \in Slots |-> NoFrame]]
    /\ disk = file
    /\ pc = "closed" /\ index = [hdr |-> NoHdr, backfill |-> 0] /\ hdr = NoHdr
    /\ usesLog = FALSE /\ cache = NoPages
    /\ dirty = {} /\ list = <<>> /\ commit = FALSE /\ mods = {}
    /\ toCopy = NoPages /\ callback = 0
    /\ txns = 0 /\ salts = 0 /\ faults = 0 /\ losses = 0
    /\ current = file.db /\ pending = {} /\ broken = {}

-----------------------------------------------------------------------------
(* Starting and reading.                                                   *)

\* The first use of the database: the wal-index is rebuilt from the log.
Recover ==
    /\ pc = "closed"
    /\ pc' = "idle"
    /\ hdr' = Recovered(file.log)
    /\ index' = [hdr |-> hdr', backfill |-> 0]
    /\ current' = Found(file)
    /\ pending' = (pending \cup {current}) \ {current'}
    /\ UNCHANGED <<files, reader, writer, checkpointer, bounds, broken>>

\* A log that is wholly in the database file is not read.  Pages in the cache
\* are kept when the header is the one they were read under.
BeginRead ==
    /\ pc = "idle"
    /\ pc' = "read"
    /\ hdr' = index.hdr
    /\ cache' = IF hdr = index.hdr THEN cache ELSE NoPages
    /\ usesLog' = (index.backfill # index.hdr.mx)
    /\ UNCHANGED <<files, index, writer, checkpointer, bounds, history>>

Fetch(p) == IF usesLog THEN PageAt(file, hdr.mx, p) ELSE file.db[p]
View(p) == IF cache[p] # None THEN cache[p] ELSE Fetch(p)

ReadPage ==
    /\ pc \in {"read", "write"}
    /\ \E p \in Pages : cache[p] = None /\ cache' = [cache EXCEPT ![p] = Fetch(p)]
    /\ UNCHANGED <<files, pc, index, hdr, usesLog, writer, checkpointer, bounds, history>>

\* The end of a statement; after a commit the wal hook, which starts a
\* checkpoint of a log that has grown long.
EndRead ==
    /\ pc = "read"
    /\ pc' = IF callback >= CheckpointAt THEN "checkpoint" ELSE "idle"
    /\ callback' = 0 /\ usesLog' = FALSE
    /\ UNCHANGED <<files, index, hdr, cache, writer, toCopy, bounds, history>>

-----------------------------------------------------------------------------
(* Writing.                                                                *)

BeginWrite ==
    /\ pc = "read" /\ txns < MaxTxns
    /\ pc' = "write" /\ txns' = txns + 1
    /\ UNCHANGED <<files, index, hdr, reader, writer, checkpointer, salts, faults, losses, history>>

Modify ==
    /\ pc = "write"
    /\ \E p \in Pages \ dirty :
         /\ dirty' = dirty \cup {p} /\ mods' = mods \cup {p}
         /\ cache' = [cache EXCEPT ![p] = txns]
    /\ UNCHANGED <<files, pc, index, hdr, usesLog, list, commit, checkpointer, bounds, history>>

\* sqlite3WalFrames begins.  walRestartLog: a log that is wholly in the database
\* file is begun anew; from here on the transaction looks into the log.
StartFrames(pages, ends) ==
    /\ pc = "write"
    /\ list' = pages /\ commit' = ends
    /\ IF ~usesLog /\ index.backfill > 0
       THEN /\ hdr' = [hdr EXCEPT !.mx = 0]
            /\ index' = [hdr |-> hdr', backfill |-> 0]
       ELSE UNCHANGED <<hdr, index>>
    /\ usesLog' = TRUE
    /\ pc' = IF hdr'.mx = 0 THEN "header" ELSE "frame"
    /\ UNCHANGED <<files, cache, dirty, mods, checkpointer, bounds, history>>

\* pagerStress: the cache is full, and a page goes to the log before the
\* commit.  Page 1 is in use all through a transaction.
Spill == \E p \in dirty \ {1} : StartFrames(<<p>>, FALSE)

\* sqlite3PcacheDirtyList: the pages of S in order.
Ascending(S) ==
    {pages \in [1..Cardinality(S) -> S] :
        Range(pages) = S /\ \A i, j \in DOMAIN pages : i < j => pages[i] < pages[j]}

\* sqlite3PagerCommitPhaseOne: the dirty pages in order.
Commit == dirty # {} /\ \E pages \in Ascending(dirty) : StartFrames(pages, TRUE)

TxnOver ==
    /\ dirty' = {} /\ list' = <<>> /\ commit' = FALSE /\ mods' = {}

\* Without dirty pages nothing is written: the transaction changed nothing, or
\* all of it has been spilled, and then no frame carries the commit mark.
CommitNothing ==
    /\ pc = "write" /\ dirty = {}
    /\ pc' = "read" /\ TxnOver
    /\ current' = Result
    /\ broken' = IF mods = {} THEN broken ELSE broken \cup {"spilled"}
    /\ UNCHANGED <<files, index, hdr, reader, checkpointer, bounds, pending>>

\* The first frame of a log comes after a new header, under a new salt.
WriteHeader ==
    /\ pc = "header"
    /\ pc' = "frame"
    /\ salts' = salts + 1
    /\ file' = [file EXCEPT !.log[0] = [NoFrame EXCEPT !.salt = salts']]
    /\ hdr' = [hdr EXCEPT !.salt = salts', !.sum = <<salts'>>]
    /\ UNCHANGED <<disk, index, reader, writer, checkpointer, txns, faults, losses, history>>

\* One frame, at the place that follows the last one of the checksum's chain; the
\* last frame of a commit is marked.
WriteFrame ==
    LET slot == Len(hdr.sum)
        p == Head(list)
        mark == commit /\ Len(list) = 1
        sum == Checksum(hdr.sum, p, txns, mark)
    IN  /\ pc = "frame" /\ slot <= MaxFrames
        /\ file' = [file EXCEPT !.log[slot] =
                      [salt |-> hdr.salt, pg |-> p, txn |-> txns, commit |-> mark, sum |-> sum]]
        /\ hdr' = [hdr EXCEPT !.sum = sum]
        /\ list' = Tail(list)
        /\ pc' = IF Len(list) > 1 THEN "frame" ELSE IF commit THEN "sync" ELSE "spilled"
        /\ pending' = IF mark THEN pending \cup {Result} ELSE pending
        /\ UNCHANGED <<disk, index, reader, dirty, commit, mods, checkpointer, bounds, current, broken>>

\* A page that was spilled is found in the log from now on.
Spilled ==
    /\ pc = "spilled"
    /\ pc' = "write"
    /\ hdr' = [hdr EXCEPT !.mx = Len(hdr.sum) - 1]
    /\ LET p == file.log[hdr'.mx].pg
       IN  dirty' = dirty \ {p} /\ cache' = [cache EXCEPT ![p] = None]
    /\ UNCHANGED <<files, index, usesLog, list, commit, mods, checkpointer, bounds, history>>

\* The commit is on the disk before it is reported.
SyncLog ==
    /\ pc = "sync"
    /\ pc' = "publish"
    /\ disk' = [disk EXCEPT !.log = file.log]
    /\ UNCHANGED <<file, index, hdr, reader, writer, checkpointer, bounds, history>>

Publish ==
    /\ pc = "publish"
    /\ pc' = "read" /\ TxnOver
    /\ hdr' = [hdr EXCEPT !.mx = Len(hdr.sum) - 1]
    /\ index' = [index EXCEPT !.hdr = hdr']
    /\ callback' = hdr'.mx
    /\ current' = Result /\ pending' = {}
    /\ UNCHANGED <<files, reader, toCopy, bounds, broken>>

Undo_Faulty ==
    /\ pc' = "read" /\ TxnOver
    /\ hdr' = index.hdr
    /\ cache' = [p \in Pages |-> IF p \in dirty THEN None ELSE cache[p]]
    /\ UNCHANGED usesLog

\* pagerRollbackWal and sqlite3WalUndo.
Undo ==
    /\ pc' = "read" /\ TxnOver
    /\ hdr' = index.hdr
    /\ LET logged == {file.log[f].pg : f \in index.hdr.mx + 1 .. hdr.mx}
       IN  cache' = [p \in Pages |-> IF p \in dirty \cup logged THEN None ELSE cache[p]]
    /\ UNCHANGED usesLog

Rollback ==
    /\ pc = "write"
    /\ Undo
    /\ UNCHANGED <<files, index, checkpointer, bounds, history>>

\* A write or a sync fails.  A commit is rolled back; a spill leaves the pager in
\* its error state, which drops every page at the end of the statement.
WriteFails ==
    /\ pc \in {"header", "frame", "sync"} /\ faults < MaxFaults
    /\ faults' = faults + 1
    /\ \/ commit /\ Undo
       \/ /\ ~commit
          /\ pc' = "idle" /\ TxnOver
          /\ cache' = NoPages /\ usesLog' = FALSE
          /\ UNCHANGED hdr
    /\ UNCHANGED <<files, index, checkpointer, txns, salts, losses, history>>

-----------------------------------------------------------------------------
(* Checkpoints: walCheckpoint.                                             *)

\* The log is synced before anything is copied from it: the last frame of each
\* page.
StartCheckpoint ==
    /\ pc = "checkpoint" /\ index.backfill < index.hdr.mx
    /\ pc' = "copy"
    /\ disk' = [disk EXCEPT !.log = file.log]
    /\ toCopy' = [p \in Pages |-> LastFrame(file.log, index.hdr.mx, p)]
    /\ UNCHANGED <<file, index, hdr, reader, writer, callback, bounds, history>>

LeftToCopy == {p \in Pages : toCopy[p] > index.backfill}

CopyPage ==
    /\ pc = "copy"
    /\ \E p \in LeftToCopy :
         /\ \A q \in LeftToCopy : p <= q
         /\ file' = [file EXCEPT !.db[p] = file.log[toCopy[p]].txn]
         /\ toCopy' = [toCopy EXCEPT ![p] = None]
    /\ UNCHANGED <<disk, pc, index, hdr, reader, writer, callback, bounds, history>>

EndCheckpoint_Faulty ==
    /\ pc = "copy" /\ LeftToCopy = {}
    /\ pc' = "idle" /\ toCopy' = NoPages
    /\ index' = [index EXCEPT !.backfill = index.hdr.mx]
    /\ UNCHANGED <<files, hdr, reader, writer, callback, bounds, history>>

\* The database is synced before the log may be begun anew.
EndCheckpoint ==
    /\ pc = "copy" /\ LeftToCopy = {}
    /\ pc' = "idle" /\ toCopy' = NoPages
    /\ disk' = [disk EXCEPT !.db = file.db]
    /\ index' = [index EXCEPT !.backfill = index.hdr.mx]
    /\ UNCHANGED <<file, hdr, reader, writer, callback, bounds, history>>

\* The log stays as it is; the next commit's checkpoint begins again.
CheckpointFails ==
    /\ pc \in {"checkpoint", "copy"} /\ faults < MaxFaults
    /\ faults' = faults + 1
    /\ pc' = "idle" /\ toCopy' = NoPages
    /\ UNCHANGED <<files, index, hdr, reader, writer, callback, txns, salts, losses, history>>

-----------------------------------------------------------------------------
(* Stops.                                                                  *)

MemoryLost ==
    /\ pc' = "closed" /\ index' = [hdr |-> NoHdr, backfill |-> 0] /\ hdr' = NoHdr
    /\ usesLog' = FALSE /\ cache' = NoPages /\ TxnOver
    /\ toCopy' = NoPages /\ callback' = 0

\* The process ends.
Kill ==
    /\ pc # "closed" /\ faults < MaxFaults
    /\ faults' = faults + 1
    /\ MemoryLost
    /\ UNCHANGED <<files, txns, salts, losses, history>>

\* Of what was not synced, each slot and each page has its old content, its new
\* content or a part of both.
Survivors(old, new, torn) ==
    LET U == {i \in DOMAIN old : old[i] # new[i]}
    IN  {[i \in DOMAIN old |-> IF i \notin U \/ g[i] = "old" THEN old[i]
                               ELSE IF g[i] = "new" THEN new[i] ELSE torn] :
           g \in [U -> {"old", "new", "torn"}]}

\* A new header of the log is not synced before the frames that follow it: they
\* may be on the disk without it, in the place of frames the old header covers.
Overtaken(log) ==
    /\ log[0] = disk.log[0] /\ log[0] \notin {file.log[0], NoFrame}
    /\ \E f \in Slots \ {0} : log[f] # disk.log[f]

PowerLoss ==
    /\ losses < MaxLosses
    /\ losses' = losses + 1
    /\ \E log \in Survivors(disk.log, file.log, NoFrame), db \in Survivors(disk.db, file.db, Torn) :
         /\ file' = [db |-> db, log |-> log]
         /\ broken' = IF Overtaken(log) THEN broken \cup {"overtaken"} ELSE broken
    /\ disk' = file'
    /\ MemoryLost
    /\ UNCHANGED <<txns, salts, faults, current, pending>>

\* What follows a defect is not explored.
Next ==
    /\ broken = {}
    /\ \/ Recover \/ BeginRead \/ ReadPage \/ EndRead
       \/ BeginWrite \/ Modify \/ Spill \/ Commit \/ CommitNothing \/ WriteHeader \/ WriteFrame
       \/ Spilled \/ SyncLog \/ Publish \/ Rollback \/ WriteFails
       \/ StartCheckpoint \/ CopyPage \/ EndCheckpoint \/ CheckpointFails
       \/ Kill \/ PowerLoss

Spec == Init /\ [][Next]_vars

-----------------------------------------------------------------------------
(* Properties.                                                             *)

TypeOK ==
    /\ file.db \in [Pages -> {Torn} \cup 0..txns] /\ disk.db \in [Pages -> {Torn} \cup 0..txns]
    /\ DOMAIN file.log = Slots /\ DOMAIN disk.log = Slots
    /\ index.backfill \in {0, index.hdr.mx} /\ index.hdr.mx \in Slots
    /\ hdr.mx \in Slots /\ Len(hdr.sum) <= MaxFrames + 1
    /\ cache \in [Pages -> {None} \cup 0..txns]
    /\ dirty \subseteq mods /\ mods \subseteq Pages
    /\ pc \in {"closed", "idle", "read", "checkpoint", "copy"} => dirty = {} /\ mods = {}
    /\ current \in [Pages -> 0..txns]
    /\ broken \subseteq {"spilled", "overtaken"}

\* The variables have their types.  Every page that is read, from the cache, the log or the database file, has the
\* content the program was told of, or what the transaction itself has made of it,
\* whatever was spilled, rolled back, copied or begun anew.
SnapshotRead == TypeOK /\
    (broken = {} /\ pc \in {"read", "write"} => \A p \in Pages : View(p) = Result[p])

\* The files always hold the last commit that was reported, whole, or the one
\* that is under way, whole; whatever write, kill or loss of power comes next.
Store == INSTANCE DurableStore WITH
    Values <- 0..MaxTxns, stored <- Found(file), told <- current, sound <- (broken = {})
StoreStep == UNCHANGED <<file, history>> \/ Store!Next
ImplementsStore == Store!Init /\ [][StoreStep]_vars

\* A frame is taken to be valid only if it is not left over from before the last
\* checkpoint (the comment at sqlite3.c 41726: "Checksums and counters attached
\* to each frame are used to determine which frames within the WAL are valid and
\* which are leftovers from prior checkpoints"): no page goes back behind the
\* last commit that was reported.
LeftoversIgnored ==
    "spilled" \notin broken => \A p \in Pages : Found(file)[p] \notin 0 .. current[p] - 1
=============================================================================
