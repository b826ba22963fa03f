------------------------------- MODULE LogStore -------------------------------
(***************************************************************************)
(* The log of one ascension: the threads that log pages hand entries to    *)
(* the thread that writes the log's database, and after the character has  *)
(* ascended every login starts a thread that compresses the log's file and *)
(* removes it.  The browser may ask to see the log meanwhile, and the      *)
(* program may be stopped at any time.                                     *)
(*                                                                         *)
(* The database is in WAL mode and is never closed: an entry is first in   *)
(* the file "-wal", and a later insertion may move all of them to the      *)
(* log's own file.  The run-time lets a file be open either for one writer *)
(* or for readers, and throws when it is opened otherwise.                 *)
(***************************************************************************)
EXTENDS Naturals, Sequences

CONSTANTS
    Pages,       \* pages to be logged, each by a thread "proxy:logresult"
    Compressors, \* threads "proxy:compresslogs", one for each login
    Show,        \* the thread "kps:mvseq" in showLogs
    None,        \* no file, nothing read
    MaxErrors,   \* bound: steps that fail
    MaxCrashes   \* bound: times the program is stopped and started again

Thread == Pages \cup Compressors \cup {Show}

\* An entry: a page, and whether the request that loaded it had its state.
Entry == [page : Pages, state : BOOLEAN]
\* A log's file, and a compressed one: whether that has been written to the end, and
\* what it holds.
File == SUBSET Pages
Copy == [whole : BOOLEAN, pages : File]

ASSUME NamesAreDistinct ==
    /\ Pages \cap Compressors = {} /\ Show \notin Pages \cup Compressors
    /\ \A file \in File \cup Copy : None # file
ASSUME BoundsAreNat == MaxErrors \in Nat /\ MaxCrashes \in Nat

VARIABLES
    ascended, \* the game's status shows a later ascension
    pc,       \* thread |-> where it is
    chan,     \* the channel of the log's database thread
    writer,   \* that thread: "none", "running" or "dead"
    attached, \* the database it has open is the file at the log's path
    log,      \* the log's file: its pages, or None
    wal,      \* the pages in the file "-wal"
    copy,     \* the file ".bz2": a Copy or None
    data,     \* compressor |-> what it has read of the log's file
    errors, crashes,
    saved,    \* history: pages ever inserted
    filed,    \* history: pages ever in the log's file
    odd       \* history: what has happened of "late" and "crossed"

logVars     == <<log, wal, attached>>
copyVars    == <<copy, data>>
historyVars == <<saved, filed, odd>>
vars == <<ascended, pc, chan, writer, logVars, copyVars, errors, crashes,
          historyVars>>

Init ==
    /\ ascended = FALSE
    /\ pc = [t \in Thread |-> "idle"]
    /\ chan = <<>> /\ writer = "none" /\ attached = FALSE
    /\ log = None /\ wal = {} /\ copy = None
    /\ data = [c \in Compressors |-> None]
    /\ errors = 0 /\ crashes = 0
    /\ saved = {} /\ filed = {} /\ odd = {}

Goto(t, where) == pc' = [pc EXCEPT ![t] = where]

\* Who has the compressed file open.
Writing(c) == pc[c] = "write"
Reading(c) == pc[c] = "compare"

-----------------------------------------------------------------------------
(* Logging a page.                                                          *)

\* doDbLogAction: the status says which log.  A page whose statuses cannot be
\* read is not logged.
ChooseLog(p) ==
    /\ pc[p] = "idle"
    /\ Goto(p, IF ascended THEN "done" ELSE "log")
    /\ UNCHANGED <<ascended, chan, writer, logVars, copyVars, errors, crashes,
                   historyVars>>

\* dblogstuff: the first entry opens the database, which creates the log's file
\* (a "-wal" that is left of another one goes), and starts the thread.
SendEntry(p) ==
    /\ pc[p] = "log"
    /\ Goto(p, "done")
    /\ \E state \in BOOLEAN : chan' = Append(chan, [page |-> p, state |-> state])
    /\ writer' = IF writer = "none" THEN "running" ELSE writer
    /\ IF writer = "none"
       THEN /\ attached' = TRUE
            /\ log' = IF log = None THEN {} ELSE log
            /\ wal' = IF log = None THEN {} ELSE wal
            /\ odd' = IF log = None /\ copy # None THEN odd \cup {"late"} ELSE odd
       ELSE UNCHANGED <<logVars, odd>>
    /\ UNCHANGED <<ascended, copyVars, errors, crashes, saved, filed>>

\* create_db fails: nothing is kept in the map.
OpenFails(p) ==
    /\ pc[p] = "log" /\ writer = "none"
    /\ errors < MaxErrors /\ errors' = errors + 1
    /\ Goto(p, "done")
    /\ UNCHANGED <<ascended, chan, writer, logVars, copyVars, crashes, historyVars>>

\* The insertion moves the pages of the "-wal" to the file the database has open.
Checkpoint(pages) ==
    /\ wal' = {}
    /\ log' = IF attached THEN log \cup pages ELSE log
    /\ filed' = IF attached THEN filed \cup pages ELSE filed
    /\ odd' = IF copy # None \/ \E c \in Compressors : data[c] # None
              THEN odd \cup {"late"} ELSE odd

\* print_log_msg on the thread "kps:dblogchan".
WriteEntry ==
    /\ writer = "running" /\ chan # <<>> /\ Head(chan).state
    /\ chan' = Tail(chan)
    /\ saved' = saved \cup {Head(chan).page}
    /\ \/ wal' = wal \cup {Head(chan).page} /\ UNCHANGED <<log, filed, odd>>
       \/ Checkpoint(wal \cup {Head(chan).page})
    /\ UNCHANGED <<ascended, pc, writer, attached, copyVars, errors, crashes>>

\* "Invalid state while logging", or an insertion that fails, ends the thread, and
\* its channel stays in the map.
WriterDies ==
    /\ writer = "running" /\ chan # <<>>
    /\ \/ ~Head(chan).state /\ UNCHANGED errors
       \/ errors < MaxErrors /\ errors' = errors + 1
    /\ chan' = Tail(chan) /\ writer' = "dead"
    /\ UNCHANGED <<ascended, pc, logVars, copyVars, crashes, historyVars>>

-----------------------------------------------------------------------------
(* compressFile                                                             *)

\* A login forks compressLogs, for the ascensions before the one it finds.
Login(c) ==
    /\ pc[c] = "idle" /\ ascended
    /\ Goto(c, "check")
    /\ UNCHANGED <<ascended, chan, writer, logVars, copyVars, errors, crashes,
                   historyVars>>

\* What is compressed already is removed.
CheckFiles_Faulty(c) ==
    /\ pc[c] = "check"
    /\ Goto(c, IF log = None THEN "done" ELSE IF copy # None THEN "remove" ELSE "read")
    /\ UNCHANGED <<ascended, chan, writer, logVars, copyVars, errors, crashes,
                   historyVars>>

\* There is a log, and no ".bz2".
CheckFiles(c) ==
    /\ pc[c] = "check"
    /\ Goto(c, IF log # None /\ copy = None THEN "read" ELSE "done")
    /\ UNCHANGED <<ascended, chan, writer, logVars, copyVars, errors, crashes,
                   historyVars>>

\* The file is compressed in memory.  If it is written to meanwhile, what was read
\* counts as what was there before: neither equals what is there afterwards.
ReadLog(c) ==
    /\ pc[c] = "read"
    /\ data' = [data EXCEPT ![c] = log]
    /\ Goto(c, IF log = None THEN "done" ELSE "open")
    /\ UNCHANGED <<ascended, chan, writer, logVars, copy, errors, crashes,
                   historyVars>>

\* The ".bz2" is opened, and emptied, unless someone else has it open.
OpenCopy(c) ==
    /\ pc[c] = "open"
    /\ \/ /\ pc[Show] = "copy" \/ \E d \in Compressors : Writing(d) \/ Reading(d)
          /\ Goto(c, "done") /\ UNCHANGED <<copy, odd>>
       \/ /\ ~\E d \in Compressors : Writing(d) \/ Reading(d)
          /\ Goto(c, "write")
          /\ copy' = [whole |-> FALSE, pages |-> {}]
          /\ odd' = IF copy # None THEN odd \cup {"crossed"} ELSE odd
    /\ UNCHANGED <<ascended, chan, writer, logVars, data, errors, crashes, saved,
                   filed>>

WriteCopy(c) ==
    /\ pc[c] = "write"
    /\ copy' = [whole |-> TRUE, pages |-> data[c]]
    /\ Goto(c, "reread")
    /\ UNCHANGED <<ascended, chan, writer, logVars, data, errors, crashes,
                   historyVars>>

\* The disk is full.
WriteFails(c) ==
    /\ pc[c] = "write"
    /\ errors < MaxErrors /\ errors' = errors + 1
    /\ Goto(c, "done")
    /\ UNCHANGED <<ascended, chan, writer, logVars, copyVars, crashes, historyVars>>

\* The compressed file is opened in a way that shuts out a reader.
Reread_Faulty(c) ==
    /\ pc[c] = "reread"
    /\ Goto(c, IF log = None \/ pc[Show] = "copy" \/ \E d \in Compressors : Writing(d)
               THEN "done" ELSE "compare")
    /\ UNCHANGED <<ascended, chan, writer, logVars, copyVars, errors, crashes,
                   historyVars>>

\* Both files are opened again ...
Reread(c) ==
    /\ pc[c] = "reread"
    /\ Goto(c, IF log = None \/ \E d \in Compressors : Writing(d)
               THEN "done" ELSE "compare")
    /\ UNCHANGED <<ascended, chan, writer, logVars, copyVars, errors, crashes,
                   historyVars>>

\* ... and compared.
Compare(c) ==
    /\ pc[c] = "compare"
    /\ Goto(c, IF copy.pages = log THEN "remove" ELSE "done")
    /\ UNCHANGED <<ascended, chan, writer, logVars, copyVars, errors, crashes,
                   historyVars>>

\* removeFile: a database that has it open goes on with a file nobody finds.
RemoveLog(c) ==
    /\ pc[c] = "remove"
    /\ log' = None /\ attached' = FALSE
    /\ Goto(c, "done")
    /\ UNCHANGED <<ascended, chan, writer, wal, copyVars, errors, crashes,
                   historyVars>>

-----------------------------------------------------------------------------
(* showLogs                                                                 *)

\* doesFileExist of the ".bz2".
PickFile ==
    /\ pc[Show] = "idle" /\ (log # None \/ copy # None)
    /\ Goto(Show, IF copy # None THEN "copy" ELSE "plain")
    /\ UNCHANGED <<ascended, chan, writer, logVars, copyVars, errors, crashes,
                   historyVars>>

\* A ".bz2" that ends early is shown as far as it goes.
Readable_Faulty == copy # None

\* copyLogFile succeeds with a ".bz2" that nobody is writing and that is whole.
Readable == copy.whole

ShowCopy(pages) ==
    /\ pc[Show] = "copy" /\ Readable
    /\ pages = copy.pages
    /\ Goto(Show, "idle")
    /\ UNCHANGED <<ascended, chan, writer, logVars, copyVars, errors, crashes,
                   historyVars>>

ShowPlain(pages) ==
    /\ pc[Show] = "plain" /\ log # None
    /\ pages = log
    /\ Goto(Show, "idle")
    /\ UNCHANGED <<ascended, chan, writer, logVars, copyVars, errors, crashes,
                   historyVars>>

ShowFails ==
    /\ \/ pc[Show] = "copy" /\ ~Readable
       \/ pc[Show] = "plain" /\ log = None
    /\ Goto(Show, "idle")
    /\ UNCHANGED <<ascended, chan, writer, logVars, copyVars, errors, crashes,
                   historyVars>>

-----------------------------------------------------------------------------

Ascend ==
    /\ ~ascended /\ ascended' = TRUE
    /\ UNCHANGED <<pc, chan, writer, logVars, copyVars, errors, crashes,
                   historyVars>>

\* The program is stopped and started again: only the files are left.
Crash ==
    /\ crashes < MaxCrashes /\ crashes' = crashes + 1
    /\ pc' = [t \in Thread |-> IF pc[t] = "idle" \/ t = Show THEN "idle" ELSE "done"]
    /\ chan' = <<>> /\ writer' = "none" /\ attached' = FALSE
    /\ data' = [c \in Compressors |-> None]
    /\ UNCHANGED <<ascended, log, wal, copy, errors, historyVars>>

AtRest == /\ \A t \in Pages \cup Compressors : pc[t] = "done"
          /\ pc[Show] = "idle" /\ (chan = <<>> \/ writer # "running")
Rest   == AtRest /\ UNCHANGED vars

LogPage(p)  == ChooseLog(p) \/ SendEntry(p) \/ OpenFails(p)
Compress(c) ==
    \/ CheckFiles(c) \/ ReadLog(c) \/ OpenCopy(c) \/ WriteCopy(c)
    \/ WriteFails(c) \/ Reread(c) \/ Compare(c) \/ RemoveLog(c)
ShowLogs ==
    PickFile \/ ShowFails \/ \E P \in File : ShowCopy(P) \/ ShowPlain(P)

Next ==
    \/ \E p \in Pages : LogPage(p)
    \/ WriteEntry \/ WriterDies
    \/ \E c \in Compressors : Login(c) \/ Compress(c)
    \/ ShowLogs
    \/ Ascend \/ Crash \/ Rest

Spec == Init /\ [][Next]_vars

\* The thread of a login runs; no login and no look at the log need come.
FairSpec == Spec /\ \A c \in Compressors : WF_vars(Compress(c))

-----------------------------------------------------------------------------
(* Properties.                                                              *)

TypeOK ==
    /\ ascended \in BOOLEAN
    /\ pc \in [Thread -> {"idle", "log", "check", "read", "open", "write", "reread",
                          "compare", "remove", "copy", "plain", "done"}]
    /\ chan \in Seq(Entry)
    /\ writer \in {"none", "running", "dead"}
    /\ attached \in BOOLEAN /\ (attached => log # None /\ writer # "none")
    /\ log \in File \cup {None} /\ wal \in File
    /\ copy \in Copy \cup {None}
    /\ data \in [Compressors -> File \cup {None}]
    /\ \A c \in Compressors :
          /\ pc[c] \in {"open", "write"} => data[c] # None
          /\ pc[c] \in {"write", "reread", "compare"} => copy # None

PagesOf(file) == IF file = None THEN {} ELSE file
PagesOfCopy   == IF copy # None /\ copy.whole THEN copy.pages ELSE {}

\* The variables have their types.  Whenever the program is stopped, an entry that
\* was inserted is in one of the log's files, and one that was in the log's own file
\* is still there or in a compressed file that can be read: unless the log was
\* written to after it had been compressed, or two threads compressed it.
LogKept == TypeOK /\
    (odd = {} => /\ saved \subseteq PagesOf(log) \cup wal \cup PagesOfCopy
                /\ filed \subseteq PagesOf(log) \cup PagesOfCopy)

\* The browser is shown every entry that has been in the log's file, or an error,
\* also while the log is being compressed; unless it was written to later.
ShownWhole ==
    [][\A P \in File :
           (ShowCopy(P) \/ ShowPlain(P)) /\ "late" \notin odd => filed \subseteq P]_vars

\* A login's compression is not given up because another login compresses the log
\* or the browser looks at it: unless a step failed, the program was stopped or
\* the log was written to, the log is compressed and removed in the end.
LogCompressed ==
    \A c \in Compressors :
        pc[c] = "check" /\ log # None
            ~> \/ log = None /\ copy # None /\ copy.whole
               \/ errors > 0 \/ crashes > 0 \/ "late" \in odd

\* "compression ok, removing file" (LogParser.hs:115): a log that is removed has
\* been compressed with every entry inserted into it.
CompressedWhole ==
    [][log # None /\ log' = None => saved \subseteq PagesOfCopy]_vars

=============================================================================
